---- MODULE Spec2Model ----
(***************************************************************************)
(* A model of the log-ingestion pipeline of ai_usage_tracker:              *)
(*   parser.py   SessionParser (record extractor, provider inference,      *)
(*               file parsing, persistence with get-or-create upserts)     *)
(*   database.py Database (schema constraints, default catalog seeding)    *)
(*                                                                         *)
(* Conventions                                                             *)
(*  - A decoded JSON value is a tagged record: Absent (key missing), Null, *)
(*    Str(s), Num(n), or an object, a record with t = "obj" whose keys are *)
(*    the keys the code probes, each holding Absent when missing.          *)
(*  - Model names are sequences of one-character strings, Txt(c), so that  *)
(*    lower(), the substring tests and the regular-expression substitution *)
(*    are computed. Provider names, session keys and timestamps are only   *)
(*    ever compared for equality and are plain strings, Str(s).            *)
(*  - Costs are fixed-point numbers in units of 10^-5 dollars (the default *)
(*    catalog's smallest step), token counts are integers.                 *)
(*  - A Python exception is a result [kind |-> "raise", exc |-> name].     *)
(***************************************************************************)
EXTENDS Integers, Sequences, FiniteSets, TLC

(***************************************************************************)
(* Bounds                                                                  *)
(***************************************************************************)
MaxTok == 1
MaxCost == 1
MaxLines == 3
MaxOps == 3
HashBuckets == 2
MaxParts == 2

(***************************************************************************)
(* JSON values and the Python operations the code applies to them          *)
(***************************************************************************)
Absent == [t |-> "absent"]
Null == [t |-> "null"]
Str(s) == [t |-> "str", s |-> s]
\* a str held as a character sequence (model names)
Txt(c) == [t |-> "str", c |-> c]
Num(n) == [t |-> "num", n |-> n]
NonDict == [t |-> "arr"]

\* json.dumps(v): the text that encodes v
json_dumps(v) == [t |-> "text", of |-> v]

Raise(e) == [kind |-> "raise", exc |-> e]
NoFact == [kind |-> "none"]

\* dict.get(key) / dict.get(key, default) on a key's slot
Get(slot, default) == IF slot = Absent THEN default ELSE slot

\* `key in dict`
Has(slot) == slot # Absent

\* the usage object's keys
UsageKeys == {"input_tokens", "output_tokens", "total_tokens", "input_cost", "output_cost", "total_cost"}

\* Python truthiness of a value (`if x`, `not x`)
Truthy(v) ==
    CASE v.t = "null" -> FALSE
      [] v.t = "absent" -> FALSE
      [] v.t = "str" -> IF "c" \in DOMAIN v THEN v.c # <<>> ELSE v.s # ""
      [] v.t = "num" -> v.n # 0
      [] v.t = "obj" -> \E k \in (DOMAIN v) \ {"t"} : v[k] # Absent
      [] OTHER -> TRUE

IsDict(v) == v.t = "obj"
IsStr(v) == v.t = "str"
IsTxt(v) == v.t = "str" /\ "c" \in DOMAIN v
IsNum(v) == v.t = "num"

(***************************************************************************)
(* Strings as character sequences                                          *)
(***************************************************************************)
UpperChars == <<"A","B","C","D","E","F","G","H","I","J","K","L","M","N","O","P","Q","R","S","T","U","V","W","X","Y","Z">>
LowerChars == <<"a","b","c","d","e","f","g","h","i","j","k","l","m","n","o","p","q","r","s","t","u","v","w","x","y","z">>
DigitChars == <<"0","1","2","3","4","5","6","7","8","9">>

Range(f) == {f[i] : i \in DOMAIN f}

LowerChar(c) ==
    IF c \in Range(UpperChars)
    THEN LowerChars[CHOOSE i \in DOMAIN UpperChars : UpperChars[i] = c]
    ELSE c

\* str.lower()
Lower(s) == [i \in DOMAIN s |-> LowerChar(s[i])]

\* `pat in s` for strings
Contains(s, pat) ==
    \E i \in 0..(Len(s) - Len(pat)) : SubSeq(s, i + 1, i + Len(pat)) = pat

(***************************************************************************)
(* SessionParser._infer_provider_from_model                                *)
(***************************************************************************)
ProviderRules == <<
    [provider |-> "openai", patterns |-> {<<"g","p","t","-">>, <<"o","1","-">>, <<"t","e","x","t","-">>, <<"d","a","l","l","-","e">>}],
    [provider |-> "anthropic", patterns |-> {<<"c","l","a","u","d","e","-">>, <<"a","n","t","h","r","o","p","i","c">>}],
    [provider |-> "google", patterns |-> {<<"g","e","m","i","n","i","-">>, <<"p","a","l","m","-">>, <<"g","o","o","g","l","e">>}],
    [provider |-> "deepseek", patterns |-> {<<"d","e","e","p","s","e","e","k","-">>}],
    [provider |-> "cohere", patterns |-> {<<"c","o","m","m","a","n","d","-">>, <<"c","o","h","e","r","e">>}],
    [provider |-> "mistral", patterns |-> {<<"m","i","s","t","r","a","l","-">>, <<"m","i","x","t","r","a","l">>}] >>

RuleMatches(i, model_lower) == \E p \in ProviderRules[i].patterns : Contains(model_lower, p)

\* model is a character sequence (the caller has checked it is a str)
infer_provider_from_model(model) ==
    LET model_lower == Lower(model)
        hits == {i \in DOMAIN ProviderRules : RuleMatches(i, model_lower)}
    IN  IF hits = {} THEN "unknown"
        ELSE ProviderRules[CHOOSE i \in hits : \A j \in hits : i <= j].provider

\* the call on any value: model.lower() needs a str
infer_provider_call(model) ==
    IF ~IsTxt(model) THEN Raise("AttributeError")
    ELSE [kind |-> "ok", v |-> infer_provider_from_model(model.c)]

(***************************************************************************)
(* SessionParser._extract_usage_from_line                                  *)
(***************************************************************************)
\* usage_location with a bug: a location whose value is empty is passed over
usage_location_falls_through(message) ==
    IF Has(message.usage) /\ Truthy(message.usage) THEN [kind |-> "ok", v |-> message.usage]
    ELSE IF Has(message.metadata) /\ IsDict(message.metadata) /\ Has(message.metadata.usage)
    THEN [kind |-> "ok", v |-> message.metadata.usage]
    ELSE IF Has(message.custom) /\ IsDict(message.custom) /\ Has(message.custom.usage)
    THEN [kind |-> "ok", v |-> message.custom.usage]
    ELSE [kind |-> "ok", v |-> Null]

\* lines 108-121: the usage location; a result is [kind |-> "ok", v |-> usage_data]
\* (v = Null when no location has it) or a raise
usage_location(message) ==
    IF Has(message.usage) THEN [kind |-> "ok", v |-> message.usage]
    ELSE IF Has(message.metadata)
    THEN IF ~IsDict(message.metadata) THEN Raise("TypeError")
         ELSE IF Has(message.metadata.usage) THEN [kind |-> "ok", v |-> message.metadata.usage]
         ELSE IF Has(message.custom)
              THEN IF ~IsDict(message.custom) THEN Raise("TypeError")
                   ELSE IF Has(message.custom.usage) THEN [kind |-> "ok", v |-> message.custom.usage]
                   ELSE [kind |-> "ok", v |-> Null]
              ELSE [kind |-> "ok", v |-> Null]
    ELSE IF Has(message.custom)
         THEN IF ~IsDict(message.custom) THEN Raise("TypeError")
              ELSE IF Has(message.custom.usage) THEN [kind |-> "ok", v |-> message.custom.usage]
              ELSE [kind |-> "ok", v |-> Null]
         ELSE [kind |-> "ok", v |-> Null]

\* lines 126-139: provider and model; [kind |-> "ok", provider, model] or a raise
provider_and_model(message) ==
    LET provider0 == Get(message.provider, Null)
        model0 == Get(message.model, Null)
        fromMeta == ~Truthy(provider0) /\ Has(message.metadata)
    IN  IF fromMeta /\ ~IsDict(message.metadata) THEN Raise("AttributeError")
        ELSE LET provider1 == IF fromMeta THEN Get(message.metadata.provider, Null) ELSE provider0
                 model1 == IF fromMeta THEN Get(message.metadata.model, Null) ELSE model0
             IN  IF ~Truthy(provider1) /\ Truthy(model1)
                 THEN IF ~IsTxt(model1) THEN Raise("AttributeError")
                      ELSE [kind |-> "ok", provider |-> Str(infer_provider_from_model(model1.c)), model |-> model1]
                 ELSE [kind |-> "ok", provider |-> provider1, model |-> model1]

\* total_or_sum with bugs: the sum replaces a total that was given; the total
\* is never computed
total_or_sum_always_sums(total, a, b) ==
    IF IsNum(a) /\ IsNum(b) THEN [kind |-> "ok", v |-> Num(a.n + b.n)] ELSE [kind |-> "ok", v |-> total]

total_or_sum_never_sums(total, a, b) == [kind |-> "ok", v |-> total]

\* lines 147-148 and 156-157: `if total == 0 and (a > 0 or b > 0): total = a + b`
\* on values that may be None; [kind |-> "ok", v |-> total] or a raise
total_or_sum(total, a, b) ==
    IF ~(IsNum(total) /\ total.n = 0) THEN [kind |-> "ok", v |-> total]
    ELSE IF ~IsNum(a) THEN Raise("TypeError")
    ELSE IF a.n > 0
         THEN IF ~IsNum(b) THEN Raise("TypeError") ELSE [kind |-> "ok", v |-> Num(a.n + b.n)]
    ELSE IF ~IsNum(b) THEN Raise("TypeError")
    ELSE IF b.n > 0 THEN [kind |-> "ok", v |-> Num(a.n + b.n)]
    ELSE [kind |-> "ok", v |-> total]

\* data: the decoded line; now: datetime.now().isoformat() at the call
extract_usage_from_line(data, now) ==
    IF ~IsDict(data) THEN Raise("AttributeError")
    ELSE IF Get(data.type, Null) # Str("message") THEN NoFact
    ELSE LET message == data.message IN
    IF Has(message) /\ ~IsDict(message) THEN Raise("AttributeError")
    ELSE IF ~Has(message) \/ Get(message.role, Null) # Str("assistant") THEN NoFact
    ELSE LET loc == usage_location(message) IN
    IF loc.kind = "raise" THEN loc
    ELSE LET usage_data == loc.v IN
    IF ~Truthy(usage_data) THEN NoFact
    ELSE LET pm == provider_and_model(message) IN
    IF pm.kind = "raise" THEN pm
    ELSE IF ~IsDict(usage_data) THEN Raise("AttributeError")
    ELSE LET input_tokens == Get(usage_data.input_tokens, Num(0))
             output_tokens == Get(usage_data.output_tokens, Num(0))
             total_tokens == total_or_sum(Get(usage_data.total_tokens, Num(0)), input_tokens, output_tokens)
             input_cost == Get(usage_data.input_cost, Num(0))
             output_cost == Get(usage_data.output_cost, Num(0))
             total_cost == total_or_sum(Get(usage_data.total_cost, Num(0)), input_cost, output_cost)
             ts == Get(data.timestamp, Null)
         IN
    IF total_tokens.kind = "raise" THEN total_tokens
    ELSE IF total_cost.kind = "raise" THEN total_cost
    ELSE [kind |-> "fact",
          entry |-> [session_id |-> Get(data.id, Null),
                     provider |-> pm.provider,
                     model |-> pm.model,
                     input_tokens |-> input_tokens,
                     output_tokens |-> output_tokens,
                     total_tokens |-> total_tokens.v,
                     input_cost |-> input_cost,
                     output_cost |-> output_cost,
                     total_cost |-> total_cost.v,
                     timestamp |-> IF Truthy(ts) THEN ts ELSE Str(now),
                     raw_data |-> json_dumps(data)]]

(***************************************************************************)
(* Decoded log lines: constructors and the bounded input sets              *)
(***************************************************************************)
Usage(it, ot, tt, ic, oc, tc) ==
    [t |-> "obj", input_tokens |-> it, output_tokens |-> ot, total_tokens |-> tt,
     input_cost |-> ic, output_cost |-> oc, total_cost |-> tc]
EmptyUsage == Usage(Absent, Absent, Absent, Absent, Absent, Absent)
Metadata(u, p, m) == [t |-> "obj", usage |-> u, provider |-> p, model |-> m]
Custom(u) == [t |-> "obj", usage |-> u]
Message(r, u, md, cu, p, m) ==
    [t |-> "obj", role |-> r, usage |-> u, metadata |-> md, custom |-> cu, provider |-> p, model |-> m]
Data(ty, msg, id, ts) == [t |-> "obj", type |-> ty, message |-> msg, id |-> id, timestamp |-> ts]

\* model names
M_gpt4o == <<"g","p","t","-","4","o">>
M_claude == <<"c","l","a","u","d","e","-","3">>

\* three usage objects that differ in every token count, one per location
UsageA == Usage(Num(100), Num(50), Absent, Absent, Absent, Absent)
UsageB == Usage(Num(7), Num(3), Num(10), Num(2), Num(1), Num(3))
UsageC == Usage(Num(4), Absent, Absent, Absent, Absent, Absent)

TokVals == {Absent, Null} \cup {Num(n) : n \in 0..MaxTok}
CostVals == {Absent} \cup {Num(n) : n \in 0..MaxCost}

\* every usage object over the bounded token and cost values
UsageObjects ==
    {Usage(it, ot, tt, ic, oc, tc) : it \in TokVals, ot \in TokVals, tt \in TokVals,
                                    ic \in CostVals, oc \in CostVals, tc \in CostVals}

\* records that vary the shape of the line around a few usage objects
ShapeMessages ==
    {Absent, Null, Str("hello")} \cup
    {Message(r, u, md, cu, p, m) :
        r \in {Absent, Str("assistant"), Str("user")},
        u \in {Absent, Null, EmptyUsage, UsageA, Num(5)},
        md \in {Absent, Null} \cup {Metadata(mu, mp, mm) : mu \in {Absent, UsageB},
                                                         mp \in {Absent, Str("anthropic")},
                                                         mm \in {Absent, Txt(M_claude)}},
        cu \in {Absent, Null} \cup {Custom(c) : c \in {Absent, UsageC}},
        p \in {Absent, Str("acme")},
        m \in {Absent, Txt(M_gpt4o), Num(5)}}

ShapeRecords ==
    {NonDict} \cup
    {Data(ty, msg, Absent, Str("t1")) : ty \in {Absent, Str("message"), Str("session")}, msg \in ShapeMessages}

\* records that vary the usage object, the session id and the timestamp
UsageRecords ==
    {Data(Str("message"), Message(Str("assistant"), u, Absent, Absent, Absent, Txt(M_gpt4o)), id, ts) :
        u \in UsageObjects, id \in {Absent, Str("s1")}, ts \in {Absent, Str("t1")}}

Records == ShapeRecords \cup UsageRecords

\* the values datetime.now().isoformat() takes, in the order of time
ClockTicks == <<"now1", "now2">>
Clock == Range(ClockTicks)

(***************************************************************************)
(* SessionParser.parse_session_file                                        *)
(***************************************************************************)
\* A physical line of a session file, by what line.strip() and json.loads
\* make of it: blank, text that does not decode, or text decoding to a value.
BlankLine == [k |-> "blank"]
BadLine == [k |-> "bad"]
JsonLine(v) == [k |-> "json", v |-> v]

\* already_processed with a bug: the line at the offset is read again
already_processed_off_by_one(incremental_, line_num, last_) == incremental_ /\ line_num < last_

\* line 60: the line is skipped as already processed
already_processed(incremental_, line_num, last_) == incremental_ /\ line_num <= last_

\* parse_lines with a bug: a line that does not decode ends the loop
RECURSIVE parse_lines_stops_at_bad_json(_, _, _, _, _, _)
parse_lines_stops_at_bad_json(lines, line_num, incremental_, last_, nowf, acc) ==
    IF line_num > Len(lines) THEN acc
    ELSE LET line == lines[line_num]
             rest(a) == parse_lines_stops_at_bad_json(lines, line_num + 1, incremental_, last_, nowf, a)
         IN
    IF incremental_ /\ line_num <= last_ THEN rest(acc)
    ELSE IF line.k = "blank" THEN rest(acc)
    ELSE IF line.k = "bad"
         THEN [acc EXCEPT !.printed = Append(@, [line_num |-> line_num, what |-> "JSON decode error"])]
    ELSE LET usage_entry == extract_usage_from_line(line.v, nowf[line_num]) IN
         IF usage_entry.kind = "raise"
         THEN rest([acc EXCEPT !.printed = Append(@, [line_num |-> line_num, what |-> "Error processing"])])
         ELSE IF usage_entry.kind = "fact"
         THEN rest([acc EXCEPT !.entries = Append(@, usage_entry.entry),
                               !.entries_processed = @ + 1])
         ELSE rest(acc)

\* lines 58-81, from physical line line_num on; nowf[i] is the clock reading
\* while line i is handled; acc is [entries, entries_processed, printed]
RECURSIVE parse_lines(_, _, _, _, _, _)
parse_lines(lines, line_num, incremental_, last_, nowf, acc) ==
    IF line_num > Len(lines) THEN acc
    ELSE LET line == lines[line_num]
             rest(a) == parse_lines(lines, line_num + 1, incremental_, last_, nowf, a)
         IN
    IF already_processed(incremental_, line_num, last_) THEN rest(acc)
    ELSE IF line.k = "blank" THEN rest(acc)
    ELSE IF line.k = "bad"
         THEN rest([acc EXCEPT !.printed = Append(@, [line_num |-> line_num, what |-> "JSON decode error"])])
    ELSE LET usage_entry == extract_usage_from_line(line.v, nowf[line_num]) IN
         IF usage_entry.kind = "raise"
         THEN rest([acc EXCEPT !.printed = Append(@, [line_num |-> line_num, what |-> "Error processing"])])
         ELSE IF usage_entry.kind = "fact"
         THEN rest([acc EXCEPT !.entries = Append(@, usage_entry.entry),
                               !.entries_processed = @ + 1])
         ELSE rest(acc)

\* f is [exists, lines]: whether the path exists and the file's lines
parse_session_file(f, incremental_, last_, nowf) ==
    IF ~f.exists THEN [entries |-> <<>>, entries_processed |-> 0, printed |-> <<>>]
    ELSE parse_lines(f.lines, 1, incremental_, last_, nowf,
                     [entries |-> <<>>, entries_processed |-> 0, printed |-> <<>>])

(***************************************************************************)
(* The store: Database.create_tables                                       *)
(*                                                                         *)
(* A table is the sequence of its rows in insertion order. Rows are never  *)
(* deleted, so the AUTOINCREMENT id of a new row is the row count plus 1.  *)
(***************************************************************************)
EmptyStore == [providers |-> <<>>, models |-> <<>>, sessions |-> <<>>, usage_entries |-> <<>>, budgets |-> <<>>]

\* providers_unique_ok with a bug: the column is not declared UNIQUE
providers_not_unique(st, name) == TRUE

\* providers.name TEXT NOT NULL UNIQUE: no row has this name yet
providers_unique_ok(st, name) ==
    \A i \in DOMAIN st.providers : st.providers[i].name # name

\* models UNIQUE(provider_id, model_id)
models_unique_ok(st, provider_id, model_id) ==
    \A i \in DOMAIN st.models :
        ~(st.models[i].provider_id = provider_id /\ st.models[i].model_id = model_id)

\* sessions.session_key TEXT NOT NULL UNIQUE
sessions_unique_ok(st, session_key) ==
    \A i \in DOMAIN st.sessions : st.sessions[i].session_key # session_key

\* models_fk_ok with a bug: the foreign key is not enforced
models_fk_not_enforced(st, provider_id) == TRUE

\* models FOREIGN KEY (provider_id) REFERENCES providers(id), enforced on a
\* connection that has set PRAGMA foreign_keys = ON (Database.connect)
models_fk_ok(st, provider_id) ==
    \E i \in DOMAIN st.providers : st.providers[i].id = provider_id

\* cursor.fetchone() after a SELECT id: the id of the first of the rows hit,
\* 0 when there is none
fetchone_id(rows, hits) ==
    IF hits = {} THEN 0 ELSE rows[CHOOSE i \in hits : \A j \in hits : i <= j].id

\* SELECT id FROM providers WHERE name = ?
select_provider(st, name) ==
    fetchone_id(st.providers, {i \in DOMAIN st.providers : st.providers[i].name = name})

\* SELECT id FROM models WHERE provider_id = ? AND model_id = ?
select_model(st, provider_id, model_id) ==
    fetchone_id(st.models, {i \in DOMAIN st.models : /\ st.models[i].provider_id = provider_id
                                                     /\ st.models[i].model_id = model_id})

\* SELECT id FROM sessions WHERE session_key = ?
select_session(st, session_key) ==
    fetchone_id(st.sessions, {i \in DOMAIN st.sessions : st.sessions[i].session_key = session_key})

provider_row(id, name, source) == [id |-> id, name |-> name, config_json |-> source]
model_row(id, provider_id, model_id, name, input_cost, output_cost) ==
    [id |-> id, provider_id |-> provider_id, model_id |-> model_id, name |-> name,
     input_cost |-> input_cost, output_cost |-> output_cost]
session_row(id, session_key) ==
    [id |-> id, session_key |-> session_key, total_tokens |-> 0, total_cost |-> 0]

\* re.sub(r'[^a-zA-Z0-9_-]', '-', s)
AllowedChars == Range(LowerChars) \cup Range(UpperChars) \cup Range(DigitChars) \cup {"_", "-"}
Sanitize(s) == [i \in DOMAIN s |-> IF s[i] \in AllowedChars THEN s[i] ELSE "-"]

M_unknown == <<"u","n","k","n","o","w","n">>

(***************************************************************************)
(* SessionParser._get_or_create_provider / _model / _session               *)
(* Each returns [kind |-> "ok", st, id] or [kind |-> "raise", exc, st]     *)
(***************************************************************************)
Ok(st, id) == [kind |-> "ok", st |-> st, id |-> id]
Fail(st, e) == [kind |-> "raise", st |-> st, exc |-> e]

\* provider_name_of with a bug: the name is compared with its case folded
provider_name_folds_case(provider) ==
    IF ~Truthy(provider) THEN "unknown" ELSE IF provider.s = "Acme" THEN "acme" ELSE provider.s

\* `if not provider_name: provider_name = 'unknown'`
provider_name_of(provider) == IF ~Truthy(provider) THEN "unknown" ELSE provider.s

\* lines 307-312: the INSERT of a provider and its lastrowid
insert_provider(st, provider_name) ==
    LET id == Len(st.providers) + 1
    IN  IF ~providers_unique_ok(st, provider_name) THEN Fail(st, "IntegrityError")
        ELSE Ok([st EXCEPT !.providers = Append(@, provider_row(id, provider_name, "parsed_from_session"))], id)

\* get_or_create_provider with a bug: no SELECT before the INSERT
get_or_create_provider_always_inserts(st, provider) ==
    insert_provider(st, provider_name_of(provider))

get_or_create_provider(st, provider) ==
    LET provider_name == provider_name_of(provider)
        result == select_provider(st, provider_name)
    IN  IF result # 0 THEN Ok(st, result)
        ELSE insert_provider(st, provider_name)

\* `if not model_name: model_name = 'unknown'`, and the model_id made of it
model_name_of(model) == IF ~Truthy(model) THEN M_unknown ELSE model.c
\* model_id_of with a bug: the name is sanitized but not lower-cased
model_id_keeps_case(model) == Sanitize(model_name_of(model))

\* line 320: re.sub(r'[^a-zA-Z0-9_-]', '-', model_name.lower())
model_id_of(model) == Sanitize(Lower(model_name_of(model)))

\* lines 333-339: the INSERT of a model and its lastrowid
insert_model(st, provider_id, model_id, model_name) ==
    LET id == Len(st.models) + 1
    IN  IF ~models_unique_ok(st, provider_id, model_id) THEN Fail(st, "IntegrityError")
        ELSE Ok([st EXCEPT !.models = Append(@, model_row(id, provider_id, model_id, model_name, Null, Null))], id)

\* get_or_create_model with a bug: a row that exists is written anew, as
\* INSERT OR REPLACE would, and loses its pricing
get_or_create_model_replaces(st, provider_id, model) ==
    IF Truthy(model) /\ ~IsTxt(model) THEN Fail(st, "AttributeError")
    ELSE LET result == select_model(st, provider_id, model_id_of(model))
             k == CHOOSE i \in DOMAIN st.models : st.models[i].id = result
         IN  IF result # 0
             THEN Ok([st EXCEPT !.models[k] = model_row(result, provider_id, model_id_of(model),
                                                        model_name_of(model), Null, Null)], result)
             ELSE insert_model(st, provider_id, model_id_of(model), model_name_of(model))

get_or_create_model(st, provider_id, model) ==
    IF Truthy(model) /\ ~IsTxt(model) THEN Fail(st, "AttributeError")
    ELSE LET result == select_model(st, provider_id, model_id_of(model))
         IN  IF result # 0 THEN Ok(st, result)
             ELSE insert_model(st, provider_id, model_id_of(model), model_name_of(model))

\* f"session-{hash(timestamp) % 1000000}": hashf is this process's hash of each
\* timestamp, reduced; SynthKeys[n + 1] is the text "session-<n>"
SynthKeys == <<"session-0", "session-1", "session-2", "session-3">>

\* session_key_of with a bug: the key is synthesized also when the fact has one
session_key_always_synthesized(session_key, timestamp, hashf) == SynthKeys[hashf[timestamp.s] + 1]

\* lines 343-345
session_key_of(session_key, timestamp, hashf) ==
    IF ~Truthy(session_key) THEN SynthKeys[hashf[timestamp.s] + 1] ELSE session_key.s

\* lines 360-366: the INSERT of a session and its lastrowid
insert_session(st, key) ==
    LET id == Len(st.sessions) + 1
    IN  IF ~sessions_unique_ok(st, key) THEN Fail(st, "IntegrityError")
        ELSE Ok([st EXCEPT !.sessions = Append(@, session_row(id, key))], id)

get_or_create_session(st, session_key, timestamp, hashf) ==
    LET key == session_key_of(session_key, timestamp, hashf)
        result == select_session(st, key)
    IN  IF result # 0 THEN Ok(st, result)
        ELSE insert_session(st, key)

\* SessionParser._get_model_pricing: the pricing of the model, Null when the
\* row is missing or either unit cost is NULL
get_model_pricing(st, model_id) ==
    LET hits == {i \in DOMAIN st.models : st.models[i].id = model_id}
    IN  IF hits = {} THEN Null
        ELSE LET result == st.models[CHOOSE i \in hits : TRUE]
             IN  IF result.input_cost # Null /\ result.output_cost # Null
                 THEN [t |-> "obj", input_cost |-> result.input_cost, output_cost |-> result.output_cost]
                 ELSE Null

(***************************************************************************)
(* SessionParser.save_usage_entries                                        *)
(***************************************************************************)
\* resolve_costs with bugs: the total is the input cost alone; a model without
\* pricing is subscripted as if it had some
resolve_costs_total_is_input(st, entry, model_id) ==
    LET asis(lookup) == [kind |-> "ok", input_cost |-> entry.input_cost, output_cost |-> entry.output_cost,
                         total_cost |-> entry.total_cost, lookup |-> lookup]
        it == entry.input_tokens
        ot == entry.output_tokens
    IN  IF ~(IsNum(entry.total_cost) /\ entry.total_cost.n = 0) THEN asis("none")
        ELSE IF ~IsNum(it) THEN Raise("TypeError")
        ELSE IF it.n <= 0 /\ ~IsNum(ot) THEN Raise("TypeError")
        ELSE IF it.n <= 0 /\ ot.n <= 0 THEN asis("none")
        ELSE LET model_pricing == get_model_pricing(st, model_id)
             IN  IF model_pricing = Null THEN asis("missing")
                 ELSE IF ~IsNum(ot) THEN Raise("TypeError")
                 ELSE [kind |-> "ok", input_cost |-> Num(it.n * model_pricing.input_cost.n),
                       output_cost |-> Num(ot.n * model_pricing.output_cost.n),
                       total_cost |-> Num(it.n * model_pricing.input_cost.n), lookup |-> "found"]

resolve_costs_needs_pricing(st, entry, model_id) ==
    LET asis(lookup) == [kind |-> "ok", input_cost |-> entry.input_cost, output_cost |-> entry.output_cost,
                         total_cost |-> entry.total_cost, lookup |-> lookup]
        it == entry.input_tokens
        ot == entry.output_tokens
    IN  IF ~(IsNum(entry.total_cost) /\ entry.total_cost.n = 0) THEN asis("none")
        ELSE IF ~IsNum(it) THEN Raise("TypeError")
        ELSE IF it.n <= 0 /\ ~IsNum(ot) THEN Raise("TypeError")
        ELSE IF it.n <= 0 /\ ot.n <= 0 THEN asis("none")
        ELSE LET model_pricing == get_model_pricing(st, model_id)
             IN  IF model_pricing = Null THEN Raise("TypeError")
                 ELSE IF ~IsNum(ot) THEN Raise("TypeError")
                 ELSE [kind |-> "ok", input_cost |-> Num(it.n * model_pricing.input_cost.n),
                       output_cost |-> Num(ot.n * model_pricing.output_cost.n),
                       total_cost |-> Num(it.n * model_pricing.input_cost.n + ot.n * model_pricing.output_cost.n),
                       lookup |-> "found"]

\* lines 253-264: the costs to store for the entry. A result is a raise or
\* [kind |-> "ok", input_cost, output_cost, total_cost, lookup], where lookup
\* tells what became of the pricing lookup: "none" (not made), "missing"
\* (made, no pricing) or "found" (made, and the costs recomputed from it)
resolve_costs(st, entry, model_id) ==
    LET asis(lookup) == [kind |-> "ok", input_cost |-> entry.input_cost, output_cost |-> entry.output_cost,
                         total_cost |-> entry.total_cost, lookup |-> lookup]
        it == entry.input_tokens
        ot == entry.output_tokens
    IN  IF ~(IsNum(entry.total_cost) /\ entry.total_cost.n = 0) THEN asis("none")
        ELSE IF ~IsNum(it) THEN Raise("TypeError")
        ELSE IF it.n <= 0 /\ ~IsNum(ot) THEN Raise("TypeError")
        ELSE IF it.n <= 0 /\ ot.n <= 0 THEN asis("none")
        ELSE LET model_pricing == get_model_pricing(st, model_id)
             IN  IF model_pricing = Null THEN asis("missing")
                 ELSE IF ~IsNum(ot) THEN Raise("TypeError")
                 ELSE LET input_cost == it.n * model_pricing.input_cost.n
                          output_cost == ot.n * model_pricing.output_cost.n
                      IN  [kind |-> "ok", input_cost |-> Num(input_cost), output_cost |-> Num(output_cost),
                           total_cost |-> Num(input_cost + output_cost), lookup |-> "found"]

\* lines 267-283: the usage_entries row
usage_row(id, session_id, model_id, entry, costs) ==
    [id |-> id, session_id |-> session_id, model_id |-> model_id,
     input_tokens |-> entry.input_tokens, output_tokens |-> entry.output_tokens,
     cache_read_tokens |-> Num(0), cache_write_tokens |-> Num(0),
     input_cost |-> costs.input_cost, output_cost |-> costs.output_cost,
     cache_read_cost |-> Num(0), cache_write_cost |-> Num(0),
     total_cost |-> costs.total_cost, timestamp |-> entry.timestamp,
     metadata_json |-> entry.raw_data]

\* what became of one entry: the ids it resolved to (0 for a step not reached),
\* the id of its usage_entries row (0 when none was inserted), the exception
\* caught ("" when none) and the pricing lookup
Outcome(provider_id, model_id, session_id, entry_id, exc, lookup) ==
    [provider_id |-> provider_id, model_id |-> model_id, session_id |-> session_id,
     entry_id |-> entry_id, exc |-> exc, lookup |-> lookup]

\* store_after_failure with a bug: the rows inserted for the entry are rolled back
store_after_failure_rolled_back(before, reached) == before

\* lines 287-289: `except Exception as e: print(...); continue`, no rollback:
\* the store stays as the entry's statements left it
store_after_failure(before, reached) == reached

\* lines 243-289: the body of the loop for one entry; [st, saved, outcome]
save_entry(st, entry, hashf) ==
    LET p == get_or_create_provider(st, entry.provider) IN
    IF p.kind = "raise"
    THEN [st |-> store_after_failure(st, p.st), saved |-> 0, outcome |-> Outcome(0, 0, 0, 0, p.exc, "none")]
    ELSE LET m == get_or_create_model(p.st, p.id, entry.model) IN
    IF m.kind = "raise"
    THEN [st |-> store_after_failure(st, m.st), saved |-> 0, outcome |-> Outcome(p.id, 0, 0, 0, m.exc, "none")]
    ELSE LET se == get_or_create_session(m.st, entry.session_id, entry.timestamp, hashf) IN
    IF se.kind = "raise"
    THEN [st |-> store_after_failure(st, se.st), saved |-> 0, outcome |-> Outcome(p.id, m.id, 0, 0, se.exc, "none")]
    ELSE LET costs == resolve_costs(se.st, entry, m.id) IN
    IF costs.kind = "raise"
    THEN [st |-> store_after_failure(st, se.st), saved |-> 0, outcome |-> Outcome(p.id, m.id, se.id, 0, costs.exc, "none")]
    ELSE LET id == Len(se.st.usage_entries) + 1 IN
         [st |-> [se.st EXCEPT !.usage_entries = Append(@, usage_row(id, se.id, m.id, entry, costs))],
          saved |-> 1,
          outcome |-> Outcome(p.id, m.id, se.id, id, "", costs.lookup)]

\* save_loop with a bug: the first entry that fails ends the loop
RECURSIVE save_loop_stops_on_error(_, _, _, _)
save_loop_stops_on_error(entries, n, hashf, acc) ==
    IF n > Len(entries) THEN acc
    ELSE LET r == save_entry(acc.st, entries[n], hashf)
             acc1 == [st |-> r.st, saved_count |-> acc.saved_count + r.saved,
                      outcomes |-> Append(acc.outcomes, r.outcome)]
         IN  IF r.saved = 0 THEN acc1 ELSE save_loop_stops_on_error(entries, n + 1, hashf, acc1)

\* lines 240-289: the loop from entry n on; acc is [st, saved_count, outcomes]
RECURSIVE save_loop(_, _, _, _)
save_loop(entries, n, hashf, acc) ==
    IF n > Len(entries) THEN acc
    ELSE LET r == save_entry(acc.st, entries[n], hashf)
         IN  save_loop(entries, n + 1, hashf,
                       [st |-> r.st, saved_count |-> acc.saved_count + r.saved,
                        outcomes |-> Append(acc.outcomes, r.outcome)])

\* the whole call on a store that can be opened: the store after the commit,
\* the returned count and the outcome of every entry
save_usage_entries(st, entries, hashf) ==
    IF entries = <<>> THEN [st |-> st, saved_count |-> 0, outcomes |-> <<>>]
    ELSE save_loop(entries, 1, hashf, [st |-> st, saved_count |-> 0, outcomes |-> <<>>])

(***************************************************************************)
(* Database.initialize: _add_default_providers, _create_default_budgets    *)
(***************************************************************************)
\* the default catalog; unit costs in 10^-5 dollars
DefaultProviders == <<
    [name |-> "openai", models |-> <<
         [model_id |-> <<"g","p","t","-","4","o">>, name |-> <<"G","P","T","-","4","o">>, input_cost |-> 500, output_cost |-> 1500],
         [model_id |-> <<"g","p","t","-","4","o","-","m","i","n","i">>, name |-> <<"G","P","T","-","4","o","-","m","i","n","i">>, input_cost |-> 150, output_cost |-> 600],
         [model_id |-> <<"o","1","-","m","i","n","i">>, name |-> <<"o","1","-","m","i","n","i">>, input_cost |-> 300, output_cost |-> 1200],
         [model_id |-> <<"o","1","-","p","r","e","v","i","e","w">>, name |-> <<"o","1","-","p","r","e","v","i","e","w">>, input_cost |-> 1500, output_cost |-> 6000]>>],
    [name |-> "anthropic", models |-> <<
         [model_id |-> <<"c","l","a","u","d","e","-","3","-","5","-","s","o","n","n","e","t","-","2","0","2","4","1","0","2","2">>, name |-> <<"C","l","a","u","d","e"," ","3",".","5"," ","S","o","n","n","e","t">>, input_cost |-> 300, output_cost |-> 1500],
         [model_id |-> <<"c","l","a","u","d","e","-","3","-","5","-","h","a","i","k","u","-","2","0","2","4","1","0","2","2">>, name |-> <<"C","l","a","u","d","e"," ","3",".","5"," ","H","a","i","k","u">>, input_cost |-> 25, output_cost |-> 125]>>],
    [name |-> "google", models |-> <<
         [model_id |-> <<"g","e","m","i","n","i","-","2",".","0","-","f","l","a","s","h">>, name |-> <<"G","e","m","i","n","i"," ","2",".","0"," ","F","l","a","s","h">>, input_cost |-> 10, output_cost |-> 40],
         [model_id |-> <<"g","e","m","i","n","i","-","2",".","0","-","p","r","o">>, name |-> <<"G","e","m","i","n","i"," ","2",".","0"," ","P","r","o">>, input_cost |-> 250, output_cost |-> 1000]>>],
    [name |-> "deepseek", models |-> <<
         [model_id |-> <<"d","e","e","p","s","e","e","k","-","c","h","a","t">>, name |-> <<"D","e","e","p","S","e","e","k"," ","C","h","a","t">>, input_cost |-> 14, output_cost |-> 28],
         [model_id |-> <<"d","e","e","p","s","e","e","k","-","r","e","a","s","o","n","e","r">>, name |-> <<"D","e","e","p","S","e","e","k"," ","R","e","a","s","o","n","e","r">>, input_cost |-> 140, output_cost |-> 280]>>] >>

\* A connection while it seeds: the store as the connection sees it and
\* cursor.lastrowid, the row id of the connection's last successful INSERT
\* (0 on a fresh connection; an INSERT OR IGNORE that inserts nothing leaves it)
Conn(st, lastrowid) == [kind |-> "ok", st |-> st, lastrowid |-> lastrowid]

\* lines 272-275: INSERT OR IGNORE INTO providers
insert_or_ignore_provider(conn, name) ==
    LET id == Len(conn.st.providers) + 1
    IN  IF providers_unique_ok(conn.st, name)
        THEN Conn([conn.st EXCEPT !.providers = Append(@, provider_row(id, name, "default"))], id)
        ELSE conn

\* lines 277-281: the provider id the models of this provider are given
seeded_provider_id(conn, name) ==
    IF conn.lastrowid = 0
    THEN select_provider(conn.st, name)
    ELSE conn.lastrowid

\* lines 285-295: INSERT OR IGNORE INTO models, foreign keys enforced
insert_or_ignore_model(conn, provider_id, model_data) ==
    LET id == Len(conn.st.models) + 1
    IN  IF ~models_unique_ok(conn.st, provider_id, model_data.model_id) THEN conn
        ELSE IF ~models_fk_ok(conn.st, provider_id) THEN Raise("IntegrityError")
        ELSE Conn([conn.st EXCEPT !.models = Append(@, model_row(id, provider_id, model_data.model_id, model_data.name,
                                                                 Num(model_data.input_cost), Num(model_data.output_cost)))], id)

\* lines 284-295: the models of one provider, from the n-th on
RECURSIVE add_models(_, _, _, _)
add_models(conn, provider_id, models, n) ==
    IF conn.kind = "raise" \/ n > Len(models) THEN conn
    ELSE add_models(insert_or_ignore_model(conn, provider_id, models[n]), provider_id, models, n + 1)

\* lines 270-295: the providers from the n-th on
RECURSIVE add_providers(_, _)
add_providers(conn, n) ==
    IF conn.kind = "raise" \/ n > Len(DefaultProviders) THEN conn
    ELSE LET provider_data == DefaultProviders[n]
             c1 == insert_or_ignore_provider(conn, provider_data.name)
             provider_id == seeded_provider_id(c1, provider_data.name)
         IN  add_providers(add_models(c1, provider_id, provider_data.models, 1), n + 1)

\* the whole of _add_default_providers on a fresh connection: the committed
\* store, or a raise (nothing was committed, the store is as it was)
add_default_providers(st) ==
    LET conn == add_providers(Conn(st, 0), 1)
    IN  IF conn.kind = "raise" THEN Fail(st, conn.exc) ELSE Ok(conn.st, 0)

\* amounts in dollars, alert thresholds in percent
budget_row(id, provider_id, period, amount, alert_threshold) ==
    [id |-> id, provider_id |-> provider_id, model_id |-> Null, period |-> period,
     amount |-> amount, alert_threshold |-> alert_threshold]

\* INSERT OR IGNORE INTO budgets: the table has no uniqueness constraint to ignore on
insert_budget(st, provider_id, period, amount, alert_threshold) ==
    [st EXCEPT !.budgets = Append(@, budget_row(Len(@) + 1, provider_id, period, amount, alert_threshold))]

\* lines 308-319: the budgets of the providers from the n-th row on
RECURSIVE provider_budgets(_, _, _)
provider_budgets(st, provider_ids, n) ==
    IF n > Len(provider_ids) THEN st
    ELSE provider_budgets(insert_budget(insert_budget(st, Num(provider_ids[n]), "daily", 10, 80),
                                        Num(provider_ids[n]), "monthly", 100, 90),
                          provider_ids, n + 1)

create_default_budgets(st) ==
    LET provider_ids == [i \in DOMAIN st.providers |-> st.providers[i].id]
        st1 == provider_budgets(st, provider_ids, 1)
    IN  insert_budget(insert_budget(st1, Null, "daily", 20, 80), Null, "monthly", 200, 90)

\* Database.initialize on a store whose tables exist: the store afterwards and
\* whether the call raised
initialize(st) ==
    LET a == add_default_providers(st)
    IN  IF a.kind = "raise" THEN [st |-> st, raised |-> TRUE]
        ELSE [st |-> create_default_budgets(a.st), raised |-> FALSE]

(***************************************************************************)
(* State                                                                   *)
(***************************************************************************)
VARIABLES
    rec,        \* the decoded line handed to the record extractor
    out,        \* what the extractor returned for rec, Pending before the call
    file,       \* the session file handed to parse_session_file
    incremental,            \* its incremental argument
    last_processed_line,    \* its last_processed_line argument
    nows,       \* the clock reading while each line is handled
    parsed,     \* what parse_session_file returned and printed, Pending before the call
    db,         \* the committed content of the store
    last,       \* the last operation on the store, its arguments and what it returned
    inits,      \* the number of runs of Database.initialize
    facts,      \* the number of entries handed to save_usage_entries so far
    co,         \* each concurrent coordinator's batch, position in it and locals
    writer,     \* the coordinator holding the store's write lock, 0 when none
    work,       \* the store as the open write transaction sees it
    model_arg,  \* the model identifier handed to provider inference
    inferred,    \* what provider inference returned for it, Pending before the call
    dir,        \* the directory handed to parse_directory: whether it exists and its *.jsonl files
    store_mode,  \* whether the store can be opened and used by the scanning parser
    scan,       \* the running parse_directory: its position, locals and what it returned
    committed,  \* the files whose batch was committed, in the order of the commits
    scan_no    \* the number of scans started

xvars == <<rec, out>>
pvars == <<file, incremental, last_processed_line, nows, parsed>>
svars == <<db, last, inits, facts>>
cvars == <<co, writer, work>>
ivars == <<model_arg, inferred>>
dvars == <<dir, store_mode, scan, committed, scan_no>>
vars == <<rec, out, file, incremental, last_processed_line, nows, parsed, db, last, inits, facts,
          co, writer, work,
          model_arg, inferred,
          dir, store_mode, scan, committed, scan_no>>

Pending == [kind |-> "pending"]

\* the variables of the operations a specification does not exercise
IdleExtract == rec = NonDict /\ out = Pending
IdleParse ==
    /\ file = [exists |-> FALSE, lines |-> <<>>]
    /\ incremental = FALSE
    /\ last_processed_line = 0
    /\ nows = <<>>
    /\ parsed = Pending
IdleStore == db = EmptyStore /\ last = [op |-> "none"] /\ inits = 0 /\ facts = 0
IdleConc == co = <<>> /\ writer = 0 /\ work = EmptyStore
IdleInfer == model_arg = Null /\ inferred = Pending
IdleScan == dir = [exists |-> FALSE, files |-> <<>>] /\ store_mode = "ok" /\ scan = [pc |-> "idle"] /\ committed = <<>> /\ scan_no = 0

(***************************************************************************)
(* The record extractor applied to every bounded input                     *)
(***************************************************************************)
InitExtract ==
    /\ rec \in Records
    /\ out = Pending
    /\ IdleParse
    /\ IdleStore
    /\ IdleConc
    /\ IdleInfer
    /\ IdleScan

ExtractLine ==
    /\ out = Pending
    /\ \E now \in Clock : out' = extract_usage_from_line(rec, now)
    /\ UNCHANGED <<rec, pvars, svars, cvars, ivars, dvars>>

NextExtract == ExtractLine

SpecExtract == InitExtract /\ [][NextExtract]_vars

\* the record declares type "message" and its message is an object with role "assistant"
IsAssistantMessage(d) ==
    /\ IsDict(d)
    /\ d.type = Str("message")
    /\ IsDict(d.message)
    /\ d.message.role = Str("assistant")

\* C1: the extractor returns a fact only for a record of type "message" whose
\* message.role is "assistant"; for every other record shape (every other JSON
\* object) it returns None and raises nothing.
C1_OnlyAssistantElseNone ==
    (out # Pending /\ IsDict(rec)) =>
        /\ out.kind = "fact" => IsAssistantMessage(rec)
        /\ ~IsAssistantMessage(rec) => out = NoFact

\* the usage value at the first location that is present, Absent when none is
first_present_usage(message) ==
    IF Has(message.usage) THEN message.usage
    ELSE IF Has(message.metadata) /\ IsDict(message.metadata) /\ Has(message.metadata.usage)
    THEN message.metadata.usage
    ELSE IF Has(message.custom) /\ IsDict(message.custom) /\ Has(message.custom.usage)
    THEN message.custom.usage
    ELSE Absent

\* C2: the usage is the one at the first location present, in the order
\* message.usage, message.metadata.usage, message.custom.usage: a fact carries
\* that location's token and cost fields and no other's, and when that
\* location holds an empty value the extractor returns None without going on.
C2_FirstUsageLocationWins ==
    (out # Pending /\ IsAssistantMessage(rec)) =>
        LET u == first_present_usage(rec.message) IN
        /\ out.kind = "fact" =>
              /\ IsDict(u)
              /\ out.entry.input_tokens = Get(u.input_tokens, Num(0))
              /\ out.entry.output_tokens = Get(u.output_tokens, Num(0))
              /\ out.entry.input_cost = Get(u.input_cost, Num(0))
              /\ out.entry.output_cost = Get(u.output_cost, Num(0))
        /\ (Has(u) /\ ~Truthy(u)) => out = NoFact

\* message.usage and message.metadata.usage both present and different: the fact is message.usage's
C2_Witness ==
    /\ out # Pending
    /\ out.kind = "fact"
    /\ IsAssistantMessage(rec)
    /\ rec.message.usage = UsageA
    /\ IsDict(rec.message.metadata)
    /\ rec.message.metadata.usage = UsageB
    /\ out.entry.input_tokens = Num(100)

C18_ModelFromMessage ==
    (out # Pending /\ out.kind = "fact" /\ Truthy(rec.message.model)) =>
        out.entry.model = rec.message.model

(***************************************************************************)
(* parse_session_file applied to every bounded file                        *)
(***************************************************************************)
\* a usage line with a session id and a timestamp, one with neither, a line
\* that is no usage record, and a line on which the extractor raises
LineWithUsage == JsonLine(Data(Str("message"), Message(Str("assistant"), UsageA, Absent, Absent, Absent, Txt(M_gpt4o)), Str("s1"), Str("t1")))
LineAnonymous == JsonLine(Data(Str("message"), Message(Str("assistant"), UsageB, Absent, Absent, Str("acme"), Txt(M_claude)), Absent, Absent))
LineNoUsage == JsonLine(Data(Str("session"), Absent, Str("s1"), Str("t1")))
LineRaising == JsonLine(Data(Str("message"), Null, Absent, Str("t1")))

ParseLineSet == {BlankLine, BadLine, LineWithUsage, LineAnonymous, LineNoUsage, LineRaising}

SeqsUpTo(S, n) == UNION {[1..k -> S] : k \in 0..n}

\* the clock does not run backwards while a file is read
ClockReadings(n) ==
    {[i \in 1..n |-> ClockTicks[ix[i]]] :
        ix \in {f \in [1..n -> DOMAIN ClockTicks] : \A i \in 1..n, j \in 1..n : i <= j => f[i] <= f[j]}}

InitParse ==
    /\ file \in {[exists |-> FALSE, lines |-> <<>>]} \cup
                {[exists |-> TRUE, lines |-> l] : l \in SeqsUpTo(ParseLineSet, MaxLines)}
    /\ incremental \in BOOLEAN
    /\ last_processed_line \in 0..MaxLines
    /\ nows \in ClockReadings(MaxLines)
    /\ parsed = Pending
    /\ IdleExtract
    /\ IdleStore
    /\ IdleConc
    /\ IdleInfer
    /\ IdleScan

ParseFile ==
    /\ parsed = Pending
    /\ parsed' = parse_session_file(file, incremental, last_processed_line, nows)
    /\ UNCHANGED <<file, incremental, last_processed_line, nows, xvars, svars, cvars, ivars, dvars>>

NextParse == ParseFile

SpecParse == InitParse /\ [][NextParse]_vars

\* the physical lines that parse_session_file is to read: all, or those past the offset
LinesToRead ==
    {j \in 1..Len(file.lines) : ~incremental \/ j > last_processed_line}

\* of those, the lines that are usage lines, and the fact of such a line
UsageLines ==
    {j \in LinesToRead : /\ file.lines[j].k = "json"
                         /\ extract_usage_from_line(file.lines[j].v, nows[j]).kind = "fact"}
FactOfLine(j) == extract_usage_from_line(file.lines[j].v, nows[j]).entry

\* the k-th smallest element of a set of line numbers
NthLine(S, k) == CHOOSE j \in S : Cardinality({i \in S : i < j}) = k - 1

\* C9: a line that fails JSON decoding is reported with one diagnostic and
\* skipped; it is not fatal to the file: the facts of all other lines, before
\* and after it, are still returned.
C9_BadJsonLineSkipped ==
    parsed # Pending =>
        \A j \in LinesToRead : file.lines[j].k = "bad" =>
            /\ Cardinality({d \in DOMAIN parsed.printed : parsed.printed[d].line_num = j}) = 1
            /\ \A d \in DOMAIN parsed.printed :
                  parsed.printed[d].line_num = j => parsed.printed[d].what = "JSON decode error"
            /\ \A i \in UsageLines : \E k \in DOMAIN parsed.entries : parsed.entries[k] = FactOfLine(i)
            /\ Len(parsed.entries) = Cardinality(UsageLines)

\* a usage line, a line that does not decode, a usage line: two facts, one diagnostic
C9_Witness ==
    /\ parsed # Pending
    /\ ~incremental
    /\ file.lines = <<LineWithUsage, BadLine, LineAnonymous>>
    /\ Len(parsed.entries) = 2
    /\ Len(parsed.printed) = 1

\* C10: with incremental, the facts returned are exactly those of the usage
\* lines whose 1-based physical line number exceeds last_processed_line, in
\* file order; without incremental the offset is ignored and every line is
\* read; the returned count is the length of the returned list.
C10_IncrementalOffset ==
    parsed # Pending =>
        /\ Len(parsed.entries) = Cardinality(UsageLines)
        /\ \A k \in 1..Len(parsed.entries) : parsed.entries[k] = FactOfLine(NthLine(UsageLines, k))
        /\ parsed.entries_processed = Len(parsed.entries)

\* three usage lines read from offset 1: the facts of lines 2 and 3
C10_Witness ==
    /\ parsed # Pending
    /\ incremental
    /\ last_processed_line = 1
    /\ file.lines = <<LineWithUsage, LineAnonymous, LineWithUsage>>
    /\ Len(parsed.entries) = 2
    /\ parsed.entries[1] = FactOfLine(2)
    /\ parsed.entries[2] = FactOfLine(3)

(***************************************************************************)
(* The store under initialize and persist, one writer at a time            *)
(***************************************************************************)
M_GPT4o == <<"G","P","T","-","4","o">>
M_GPT_4o == <<"G","P","T",".","4","o">>
UsageFree == Usage(Num(0), Num(0), Absent, Absent, Absent, Absent)
UsageNullInput == Usage(Null, Absent, Num(5), Absent, Absent, Absent)

\* the decoded lines whose facts are persisted:
\*   the model alone (provider inferred), no costs; costs given under a named
\*   provider, no session id, the model name in capitals with a '.'; a request
\*   without tokens; a model that is no string, under the named provider in
\*   another letter case; a null token count, the inferred provider named and
\*   the model name in capitals with a '.'; neither provider nor model
StoreRecords == {
    Data(Str("message"), Message(Str("assistant"), UsageA, Absent, Absent, Absent, Txt(M_gpt4o)), Str("s1"), Str("t1")),
    Data(Str("message"), Message(Str("assistant"), UsageB, Absent, Absent, Str("acme"), Txt(M_GPT_4o)), Absent, Str("t1")),
    Data(Str("message"), Message(Str("assistant"), UsageFree, Absent, Absent, Absent, Txt(M_claude)), Absent, Str("t2")),
    Data(Str("message"), Message(Str("assistant"), UsageC, Absent, Absent, Str("Acme"), Num(5)), Str("s1"), Str("t1")),
    Data(Str("message"), Message(Str("assistant"), UsageNullInput, Absent, Absent, Str("openai"), Txt(M_GPT_4o)), Str("s2"), Str("t1")),
    Data(Str("message"), Message(Str("assistant"), UsageC, Absent, Absent, Absent, Absent), Absent, Str("t1")) }

StoreFacts ==
    {extract_usage_from_line(r, "now1").entry : r \in {x \in StoreRecords : extract_usage_from_line(x, "now1").kind = "fact"}}

Timestamps == {"t1", "t2"}

\* the timestamps a batch hashes: those of its entries without a session id
HashedTimestamps(entries) ==
    {entries[i].timestamp.s : i \in {j \in DOMAIN entries : ~Truthy(entries[j].session_id)}}

\* hash(timestamp) % 1000000 in one process: any function of the timestamp
\* (str hashes are salted per process); fixed where the batch does not hash
HashFunctions(entries) ==
    {h \in [Timestamps -> 0..(HashBuckets - 1)] : \A t \in Timestamps \ HashedTimestamps(entries) : h[t] = 0}

Init ==
    /\ db = EmptyStore
    /\ last = [op |-> "none"]
    /\ inits = 0
    /\ facts = 0
    /\ IdleExtract
    /\ IdleParse
    /\ IdleConc
    /\ IdleInfer
    /\ IdleScan

\* Database.initialize; last keeps the store as it was before the call
Initialize ==
    /\ inits + facts < MaxOps
    /\ LET r == initialize(db)
       IN  /\ db' = r.st
           /\ last' = [op |-> "initialize", pre |-> db, raised |-> r.raised]
    /\ inits' = inits + 1
    /\ UNCHANGED <<facts, xvars, pvars, cvars, ivars, dvars>>

\* SessionParser.save_usage_entries on a batch of facts, in a process whose
\* string hash is hashf; last keeps the store as it was before the call, the
\* batch, the returned count and what became of every entry
Persist ==
    \E entries \in SeqsUpTo(StoreFacts, MaxOps - (inits + facts)) :
        /\ \E hashf \in HashFunctions(entries) :
              LET r == save_usage_entries(db, entries, hashf)
              IN  /\ db' = r.st
                  /\ last' = [op |-> "persist", pre |-> db, entries |-> entries,
                              saved_count |-> r.saved_count, outcomes |-> r.outcomes]
        /\ facts' = facts + Len(entries)
        /\ UNCHANGED <<inits, xvars, pvars, cvars, ivars, dvars>>

Next == Initialize \/ Persist

Spec == Init /\ [][Next]_vars

(***************************************************************************)
(* Claims about the store                                                  *)
(***************************************************************************)
\* the row of a table with a given id
RowById(rows, id) == rows[CHOOSE i \in DOMAIN rows : rows[i].id = id]

\* the indices of the entries of the last persist for which a row was inserted
Inserted == {i \in DOMAIN last.entries : last.outcomes[i].entry_id # 0}
InsertedRow(i) == RowById(db.usage_entries, last.outcomes[i].entry_id)

\* at least one of input_tokens / output_tokens is a positive number
PositiveTokens(e) ==
    \/ IsNum(e.input_tokens) /\ e.input_tokens.n > 0
    \/ IsNum(e.output_tokens) /\ e.output_tokens.n > 0

\* the Cost Resolver's recompute condition for fact e against model row m
RecomputeCondition(e, m) ==
    /\ IsNum(e.total_cost) /\ e.total_cost.n = 0
    /\ PositiveTokens(e)
    /\ m.input_cost # Null
    /\ m.output_cost # Null

\* C3: persist recomputes the costs of a fact exactly when its total_cost is
\* zero, one of its token counts is positive and its model has both unit costs;
\* the stored costs are then tokens times unit cost, their sum as the total,
\* which is the sum of the four stored cost components.
C3_RecomputedCosts ==
    last.op = "persist" =>
        \A i \in Inserted :
            LET e == last.entries[i]
                row == InsertedRow(i)
                m == RowById(db.models, row.model_id)
            IN  /\ (last.outcomes[i].lookup = "found") <=> RecomputeCondition(e, m)
                /\ RecomputeCondition(e, m) =>
                      /\ row.input_cost = Num(e.input_tokens.n * m.input_cost.n)
                      /\ row.output_cost = Num(e.output_tokens.n * m.output_cost.n)
                      /\ row.total_cost = Num(row.input_cost.n + row.output_cost.n)
                      /\ row.total_cost.n = row.input_cost.n + row.output_cost.n
                                            + row.cache_read_cost.n + row.cache_write_cost.n

\* 100 and 50 tokens of gpt-4o at 0.005 / 0.015 are stored as 1.25
C3_Witness ==
    /\ last.op = "persist"
    /\ \E i \in Inserted :
          /\ last.entries[i].input_tokens = Num(100)
          /\ last.entries[i].output_tokens = Num(50)
          /\ last.entries[i].total_cost = Num(0)
          /\ RowById(db.models, InsertedRow(i).model_id).input_cost = Num(500)
          /\ RowById(db.models, InsertedRow(i).model_id).output_cost = Num(1500)
          /\ InsertedRow(i).total_cost = Num(125000)

\* C4: when the recompute condition does not hold, the stored input_cost,
\* output_cost and total_cost are the extractor's; a model without pricing is
\* no error: the entry is inserted, with a total cost of zero.
C4_CostsPassThrough ==
    last.op = "persist" =>
        /\ \A i \in Inserted :
              LET e == last.entries[i]
                  row == InsertedRow(i)
                  m == RowById(db.models, row.model_id)
              IN  ~RecomputeCondition(e, m) =>
                      /\ row.input_cost = e.input_cost
                      /\ row.output_cost = e.output_cost
                      /\ row.total_cost = e.total_cost
        /\ \A i \in DOMAIN last.entries :
              LET e == last.entries[i]
                  o == last.outcomes[i]
              IN  (/\ o.session_id # 0
                   /\ IsNum(e.total_cost) /\ e.total_cost.n = 0
                   /\ IsNum(e.input_tokens) /\ IsNum(e.output_tokens)
                   /\ PositiveTokens(e)
                   /\ ~RecomputeCondition(e, RowById(db.models, o.model_id)))
                  => (o.exc = "" /\ o.entry_id # 0 /\ InsertedRow(i).total_cost = Num(0))

\* a fact with tokens and no cost whose model has no pricing: inserted at zero cost
C4_Witness ==
    /\ last.op = "persist"
    /\ \E i \in Inserted :
          /\ last.entries[i].input_tokens = Num(100)
          /\ last.entries[i].total_cost = Num(0)
          /\ RowById(db.models, InsertedRow(i).model_id).input_cost = Null
          /\ last.outcomes[i].lookup = "missing"
          /\ InsertedRow(i).total_cost = Num(0)

\* C5: in every state reachable by initialize and persist, no two providers
\* rows share a name, no two models rows share (provider_id, model_id), no two
\* sessions rows share a session_key.
C5_Uniqueness ==
    /\ \A i, j \in DOMAIN db.providers : db.providers[i].name = db.providers[j].name => i = j
    /\ \A i, j \in DOMAIN db.models :
          (db.models[i].provider_id = db.models[j].provider_id /\ db.models[i].model_id = db.models[j].model_id)
          => i = j
    /\ \A i, j \in DOMAIN db.sessions : db.sessions[i].session_key = db.sessions[j].session_key => i = j

\* the store was seeded, and a persist then met a provider, a model and a session it already held
C5_Witness ==
    /\ inits >= 1
    /\ last.op = "persist"
    /\ \E i \in Inserted :
          /\ last.outcomes[i].provider_id <= Len(last.pre.providers)
          /\ last.outcomes[i].model_id <= Len(last.pre.models)
          /\ last.outcomes[i].session_id <= Len(last.pre.sessions)

\* the provider name and the model identifier persist looks a fact up by
ProviderNameOf(e) == IF Truthy(e.provider) THEN e.provider.s ELSE "unknown"
ModelIdOf(e) == Sanitize(Lower(IF Truthy(e.model) THEN e.model.c ELSE M_unknown))

\* the rows of the store before the last call that a fact's provider / model resolve to
PriorProviders(e) == {i \in DOMAIN last.pre.providers : last.pre.providers[i].name = ProviderNameOf(e)}
PriorModels(e, provider_id) ==
    {i \in DOMAIN last.pre.models : /\ last.pre.models[i].provider_id = provider_id
                                    /\ last.pre.models[i].model_id = ModelIdOf(e)}

\* the rows the store held before the last call for the very same log line
PriorRowsOf(e) == {i \in DOMAIN last.pre.usage_entries : last.pre.usage_entries[i].metadata_json = e.raw_data}

\* C6: get-or-create is idempotent under repetition: a provider name or a
\* (provider, model) that the store already holds resolves to the existing
\* row's id and inserts nothing, so a second ingestion of the same facts adds
\* no providers or models row and maps every fact to the ids of the first
\* pass, while its usage_entries rows are inserted again.
C6_CatalogIdempotent ==
    last.op = "persist" =>
        /\ \A i \in DOMAIN last.entries :
              LET e == last.entries[i]
                  o == last.outcomes[i]
              IN  /\ \A k \in PriorProviders(e) : o.provider_id = last.pre.providers[k].id
                  /\ Cardinality({k \in DOMAIN db.providers : db.providers[k].name = ProviderNameOf(e)}) = 1
                  /\ (IsTxt(e.model) \/ ~Truthy(e.model)) =>
                        /\ \A k \in PriorModels(e, o.provider_id) : o.model_id = last.pre.models[k].id
                        /\ Cardinality({k \in DOMAIN db.models : /\ db.models[k].provider_id = o.provider_id
                                                                 /\ db.models[k].model_id = ModelIdOf(e)}) = 1
                  /\ \A k \in PriorRowsOf(e) :
                        /\ o.entry_id > Len(last.pre.usage_entries)
                        /\ InsertedRow(i).metadata_json = e.raw_data
                        /\ InsertedRow(i).model_id = last.pre.usage_entries[k].model_id
        /\ (\A i \in DOMAIN last.entries : PriorRowsOf(last.entries[i]) # {}) =>
              /\ db.providers = last.pre.providers
              /\ db.models = last.pre.models
              /\ Len(db.usage_entries) = Len(last.pre.usage_entries) + Len(last.entries)

\* a batch of two facts is persisted a second time: no new catalog row, two more entries
C6_Witness ==
    /\ last.op = "persist"
    /\ Len(last.entries) >= 1
    /\ \A i \in DOMAIN last.entries : PriorRowsOf(last.entries[i]) # {}
    /\ db.providers = last.pre.providers
    /\ db.models = last.pre.models
    /\ last.pre.models # <<>>
    /\ Len(db.usage_entries) = 2 * Len(last.entries)

\* C8: a failure on one fact is caught and does not end the batch: every fact
\* of the batch is attempted, in order, and the returned count is the number
\* of usage_entries rows the call inserted.
C8_BatchSurvivesFailure ==
    last.op = "persist" =>
        /\ Len(last.outcomes) = Len(last.entries)
        /\ \A i \in DOMAIN last.entries : last.outcomes[i].provider_id # 0
        /\ \A i \in DOMAIN last.entries : (last.outcomes[i].exc = "") <=> (i \in Inserted)
        /\ \A i \in Inserted : InsertedRow(i).metadata_json = last.entries[i].raw_data
        /\ \A i, j \in Inserted : i < j => last.outcomes[i].entry_id < last.outcomes[j].entry_id
        /\ \A i \in Inserted : last.outcomes[i].entry_id > Len(last.pre.usage_entries)
        /\ last.saved_count = Cardinality(Inserted)
        /\ last.saved_count = Len(db.usage_entries) - Len(last.pre.usage_entries)

\* three facts, the second fails: the first and the third are inserted, the count is 2
C8_Witness ==
    /\ last.op = "persist"
    /\ Len(last.entries) = 3
    /\ last.outcomes[1].entry_id # 0
    /\ last.outcomes[2].exc # ""
    /\ last.outcomes[3].entry_id # 0
    /\ last.saved_count = 2

\* C20: persist resolves a fact's provider by its exact name, "unknown" when
\* the fact has none: the row a fact resolves to carries that very name, two
\* facts resolve to the same row exactly when their names are equal letter for
\* letter, and the facts without a provider share the one "unknown" row.
C20_ProviderByExactName ==
    last.op = "persist" =>
        /\ \A i \in DOMAIN last.entries :
              /\ last.outcomes[i].provider_id # 0
              /\ RowById(db.providers, last.outcomes[i].provider_id).name =
                    (IF Truthy(last.entries[i].provider) THEN last.entries[i].provider.s ELSE "unknown")
        /\ \A i, j \in DOMAIN last.entries :
              (last.outcomes[i].provider_id = last.outcomes[j].provider_id)
              <=> (ProviderNameOf(last.entries[i]) = ProviderNameOf(last.entries[j]))
        /\ Cardinality({k \in DOMAIN db.providers : db.providers[k].name = "unknown"}) <= 1

\* one batch with "acme", "Acme" and no provider: three different rows, the last named "unknown"
C20_Witness ==
    /\ last.op = "persist"
    /\ Len(last.entries) = 3
    /\ last.entries[1].provider = Str("acme")
    /\ last.entries[2].provider = Str("Acme")
    /\ last.entries[3].provider = Null
    /\ last.outcomes[1].provider_id # last.outcomes[2].provider_id
    /\ RowById(db.providers, last.outcomes[3].provider_id).name = "unknown"

\* the entries of the last batch whose model was resolved
ModelResolved == {i \in DOMAIN last.entries : last.outcomes[i].model_id # 0}

\* the name persist gives the model of a fact
ModelNameOf(e) == IF Truthy(e.model) THEN e.model.c ELSE M_unknown

\* id is name with every upper-case letter lower-cased and every character
\* that is no letter, digit, '_' or '-' replaced by '-'
IsSanitized(id, name) ==
    /\ Len(id) = Len(name)
    /\ \A k \in DOMAIN name :
          IF \E u \in DOMAIN UpperChars : UpperChars[u] = name[k]
          THEN \E u \in DOMAIN UpperChars : UpperChars[u] = name[k] /\ id[k] = LowerChars[u]
          ELSE IF name[k] \in Range(LowerChars) \cup Range(DigitChars) \cup {"_", "-"} THEN id[k] = name[k]
          ELSE id[k] = "-"

\* C21: persist resolves the model under the fact's provider row by the
\* sanitized, lower-cased model name: the row a fact resolves to carries that
\* identifier and that provider, and two facts resolve to the same models row
\* exactly when their providers are the same row and their sanitized
\* identifiers are equal.
C21_ModelBySanitizedId ==
    last.op = "persist" =>
        /\ \A i \in ModelResolved :
              LET row == RowById(db.models, last.outcomes[i].model_id)
              IN  /\ IsSanitized(row.model_id, ModelNameOf(last.entries[i]))
                  /\ row.provider_id = last.outcomes[i].provider_id
        /\ \A i, j \in ModelResolved :
              (last.outcomes[i].model_id = last.outcomes[j].model_id)
              <=> /\ last.outcomes[i].provider_id = last.outcomes[j].provider_id
                  /\ \A id \in {db.models[k].model_id : k \in DOMAIN db.models} :
                        IsSanitized(id, ModelNameOf(last.entries[i])) <=> IsSanitized(id, ModelNameOf(last.entries[j]))

\* "gpt-4o" and "GPT.4o" under openai share a models row; "GPT.4o" under acme has one of its own
C21_Witness ==
    /\ last.op = "persist"
    /\ Len(last.entries) = 3
    /\ last.entries[1].model = Txt(M_gpt4o)
    /\ last.entries[2].model = Txt(M_GPT_4o)
    /\ last.entries[3].model = Txt(M_GPT_4o)
    /\ last.outcomes[1].provider_id = last.outcomes[2].provider_id
    /\ last.outcomes[1].model_id # 0
    /\ last.outcomes[1].model_id = last.outcomes[2].model_id
    /\ last.outcomes[3].provider_id # last.outcomes[2].provider_id
    /\ last.outcomes[3].model_id # 0
    /\ last.outcomes[3].model_id # last.outcomes[2].model_id
    /\ RowById(db.models, last.outcomes[3].model_id).model_id = M_gpt4o

\* the entries of the last batch whose session was resolved
SessionResolved == {i \in DOMAIN last.entries : last.outcomes[i].session_id # 0}

\* the entries among them that carry a session key, and those that carry none
Keyed == {i \in SessionResolved : Truthy(last.entries[i].session_id)}
Anonymous == SessionResolved \ Keyed

\* the session_key of the sessions row an entry was attached to
AttachedKey(i) == RowById(db.sessions, last.outcomes[i].session_id).session_key

\* C23: persist resolves the session by the fact's session key, and by a key
\* synthesized from the timestamp when the fact has none; a sessions row is
\* created only for a key the store does not hold, so the facts sharing a key,
\* and the anonymous facts of one run sharing a timestamp, are attached to
\* one and the same row.
C23_SessionByKey ==
    last.op = "persist" =>
        /\ \A i \in Keyed : AttachedKey(i) = last.entries[i].session_id.s
        /\ \A i \in Anonymous : AttachedKey(i) \in Range(SynthKeys)
        /\ \A i, j \in Keyed :
              last.entries[i].session_id = last.entries[j].session_id
              => last.outcomes[i].session_id = last.outcomes[j].session_id
        /\ \A i, j \in Anonymous :
              last.entries[i].timestamp = last.entries[j].timestamp
              => last.outcomes[i].session_id = last.outcomes[j].session_id
        /\ \A i \in SessionResolved :
              /\ \A k \in DOMAIN last.pre.sessions :
                    last.pre.sessions[k].session_key = AttachedKey(i)
                    => last.outcomes[i].session_id = last.pre.sessions[k].id
              /\ Cardinality({k \in DOMAIN db.sessions : db.sessions[k].session_key = AttachedKey(i)}) = 1
        /\ Len(db.sessions) - Len(last.pre.sessions) =
              Cardinality({AttachedKey(i) : i \in SessionResolved}
                          \ {last.pre.sessions[k].session_key : k \in DOMAIN last.pre.sessions})

\* the store holds the session "s1"; a run persists two different anonymous
\* facts of one timestamp: one sessions row is added, and both are attached to it
C23_Witness ==
    /\ last.op = "persist"
    /\ Len(last.pre.sessions) = 1
    /\ last.pre.sessions[1].session_key = "s1"
    /\ Len(last.entries) = 2
    /\ Anonymous = {1, 2}
    /\ last.entries[1] # last.entries[2]
    /\ last.entries[1].timestamp = last.entries[2].timestamp
    /\ last.outcomes[1].session_id = 2
    /\ last.outcomes[2].session_id = 2
    /\ Len(db.sessions) = 2

\* the rows of a table before the last call are its first rows after it, unchanged
Kept(before, after) ==
    /\ Len(after) >= Len(before)
    /\ \A k \in DOMAIN before : after[k] = before[k]

\* the rows of a table the last call added
Added(before, after) == {k \in DOMAIN after : k > Len(before)}

\* C22: persist is insert-only: every row the store held before the call is
\* there after it, unchanged (the pricing of a model, a usage entry, the
\* cumulative fields of a session); a model it creates has null pricing, a
\* session it creates has zero totals, and it writes no budgets row.
C22_InsertOnly ==
    last.op = "persist" =>
        /\ Kept(last.pre.providers, db.providers)
        /\ Kept(last.pre.models, db.models)
        /\ Kept(last.pre.sessions, db.sessions)
        /\ Kept(last.pre.usage_entries, db.usage_entries)
        /\ db.budgets = last.pre.budgets
        /\ \A k \in Added(last.pre.models, db.models) :
              db.models[k].input_cost = Null /\ db.models[k].output_cost = Null
        /\ \A k \in DOMAIN db.sessions :
              db.sessions[k].total_tokens = 0 /\ db.sessions[k].total_cost = 0

\* on a seeded store a run persists a fact of a priced model and a fact of a
\* model it has to create: the priced row and the budgets are as they were
C22_Witness ==
    /\ last.op = "persist"
    /\ last.pre.budgets # <<>>
    /\ db.budgets = last.pre.budgets
    /\ Len(last.entries) = 2
    /\ Inserted = {1, 2}
    /\ last.outcomes[1].model_id <= Len(last.pre.models)
    /\ RowById(db.models, last.outcomes[1].model_id).input_cost = Num(500)
    /\ last.outcomes[2].model_id > Len(last.pre.models)
    /\ RowById(db.models, last.outcomes[2].model_id).input_cost = Null
    /\ InsertedRow(1).total_cost # Num(0)
    /\ RowById(db.sessions, last.outcomes[1].session_id).total_cost = 0

\* a table holds a row with this id
HasId(rows, id) == \E k \in DOMAIN rows : rows[k].id = id

\* C24: referential integrity holds in every state reachable by initialize
\* and persist: every usage_entries row references a sessions row and a
\* models row of the store, and every models row a providers row.
C24_ReferentialIntegrity ==
    /\ \A k \in DOMAIN db.usage_entries :
          /\ HasId(db.sessions, db.usage_entries[k].session_id)
          /\ HasId(db.models, db.usage_entries[k].model_id)
    /\ \A k \in DOMAIN db.models : HasId(db.providers, db.models[k].provider_id)

\* a store that holds a usage entry, with the model and the provider persist
\* created for it, has been seeded with the default catalog
C24_Witness ==
    /\ last.op = "initialize"
    /\ ~last.raised
    /\ last.pre.usage_entries # <<>>
    /\ last.pre.models # <<>>
    /\ db.usage_entries = last.pre.usage_entries
    /\ Len(db.models) = Len(last.pre.models) + 10
    /\ Len(db.providers) = Len(last.pre.providers) + 4

\* the store holds the default model under the providers row of this name
AttachedTo(model_id, provider_name) ==
    \E k \in DOMAIN db.models : \E j \in DOMAIN db.providers :
        /\ db.models[k].model_id = model_id
        /\ db.models[k].provider_id = db.providers[j].id
        /\ db.providers[j].name = provider_name

\* C25: from any prior store state, seeding the default catalog completes and
\* leaves every default model attached to the providers row that has the name
\* of the model's catalog provider, whether that row was inserted by the run
\* or was there before.
C25_SeedingAttachesModels ==
    last.op = "initialize" =>
        /\ ~last.raised
        /\ \A p \in DOMAIN DefaultProviders : \A m \in DOMAIN DefaultProviders[p].models :
              AttachedTo(DefaultProviders[p].models[m].model_id, DefaultProviders[p].name)

\* the entries of the last batch whose handling raised
Failed == {i \in DOMAIN last.entries : last.outcomes[i].exc # ""}

\* C26: a fact whose handling fails partway gets no usage_entries row and is
\* not counted, but there is no rollback: the providers, models and sessions
\* rows its handling reached, created for it or not, are in the store the one
\* commit after the last fact leaves.
C26_NoPerFactRollback ==
    last.op = "persist" =>
        /\ \A i \in Failed :
              /\ last.outcomes[i].entry_id = 0
              /\ last.outcomes[i].provider_id # 0 => HasId(db.providers, last.outcomes[i].provider_id)
              /\ last.outcomes[i].model_id # 0 => HasId(db.models, last.outcomes[i].model_id)
              /\ last.outcomes[i].session_id # 0 => HasId(db.sessions, last.outcomes[i].session_id)
        /\ last.saved_count = Len(last.entries) - Cardinality(Failed)
        /\ Len(db.usage_entries) = Len(last.pre.usage_entries) + last.saved_count
        /\ \A k \in Added(last.pre.usage_entries, db.usage_entries) :
              \E i \in DOMAIN last.entries \ Failed : last.outcomes[i].entry_id = db.usage_entries[k].id

\* on an empty store a batch of two facts fails twice, at the model of the
\* first and at the costs of the second: nothing is counted, no usage entry is
\* inserted, and the two providers, the model and the session created are kept
C26_Witness ==
    /\ last.op = "persist"
    /\ last.pre = EmptyStore
    /\ Len(last.entries) = 2
    /\ Failed = {1, 2}
    /\ last.outcomes[1].model_id = 0
    /\ last.outcomes[2].session_id # 0
    /\ last.saved_count = 0
    /\ db.usage_entries = <<>>
    /\ Len(db.providers) = 2
    /\ Len(db.models) = 1
    /\ Len(db.sessions) = 1

\* C27: initialize is idempotent: on a store that was initialized before (it
\* holds the default budgets) it completes without error and adds no
\* providers, models or budgets row, so there is exactly one default budget
\* for every provider or the global scope and period.
C27_InitializeIdempotent ==
    (last.op = "initialize" /\ last.pre.budgets # <<>>) =>
        /\ ~last.raised
        /\ db.providers = last.pre.providers
        /\ db.models = last.pre.models
        /\ db.budgets = last.pre.budgets
        /\ \A i, j \in DOMAIN db.budgets :
              (db.budgets[i].provider_id = db.budgets[j].provider_id /\ db.budgets[i].period = db.budgets[j].period)
              => i = j

(***************************************************************************)
(* Two coordinators persisting against the same store, statement by        *)
(* statement. Each has its own sqlite3 connection: the first INSERT of a    *)
(* batch opens a transaction that lasts until the commit at the end of     *)
(* save_usage_entries; an INSERT takes the store's write lock, which is     *)
(* kept until that commit, also when the INSERT failed on a constraint; a   *)
(* SELECT sees what is committed, and inside a transaction it keeps a read  *)
(* lock until that commit; a commit of writes needs no other read lock in   *)
(* place. A statement that finds the lock it needs taken waits, or gives up *)
(* with OperationalError("database is locked").                            *)
(***************************************************************************)
Coordinators == {1, 2}
Other(c) == 3 - c

\* the decoded lines the coordinators persist: a named provider, an inferred one
ConcRecords == {
    Data(Str("message"), Message(Str("assistant"), UsageA, Absent, Absent, Str("acme"), Txt(M_GPT4o)), Str("s1"), Str("t1")),
    Data(Str("message"), Message(Str("assistant"), UsageA, Absent, Absent, Absent, Txt(M_gpt4o)), Str("s1"), Str("t2")) }

ConcFacts == {extract_usage_from_line(r, "now1").entry : r \in ConcRecords}

\* no fact of ConcFacts is without a session id, so nothing is hashed
NoHash == [t \in Timestamps |-> 0]

\* the store a coordinator's statements see
View(c) == IF writer = c THEN work ELSE db

\* save_usage_entries entered with a non-empty batch: the loop at its first entry
NewCoordinator(entries) ==
    [entries |-> entries, n |-> 1, pc |-> "provider",
     provider_id |-> 0, model_id |-> 0, session_id |-> 0, costs |-> Null,
     in_tx |-> FALSE, shared |-> FALSE, saved_count |-> 0, outcomes |-> <<>>]

\* the loop moves to its next entry, or to the commit after the last one
next_entry(s, outcome, saved) ==
    [s EXCEPT !.n = s.n + 1,
              !.pc = IF s.n + 1 > Len(s.entries) THEN "commit" ELSE "provider",
              !.provider_id = 0, !.model_id = 0, !.session_id = 0, !.costs = Null,
              !.saved_count = @ + saved,
              !.outcomes = Append(@, outcome)]

\* `except Exception as e: ... continue`
caught(s, exc) ==
    next_entry(s, Outcome(s.provider_id, s.model_id, s.session_id, 0, exc, "none"), 0)

\* a SELECT inside a transaction leaves a read lock in place
reading(s) == [s EXCEPT !.shared = s.in_tx]

\* an INSERT is preceded by an implicit BEGIN
writing(s) == [s EXCEPT !.in_tx = TRUE]

InsertPcs == {"provider_insert", "model_insert", "session_insert", "usage"}

InitConc ==
    /\ co \in {<<NewCoordinator(e1), NewCoordinator(e2)>> :
                 e1 \in SeqsUpTo(ConcFacts, MaxOps) \ {<<>>},
                 e2 \in SeqsUpTo(ConcFacts, MaxOps) \ {<<>>}}
    /\ Len(co[1].entries) + Len(co[2].entries) <= MaxOps
    /\ writer = 0
    /\ work = EmptyStore
    /\ IdleStore
    /\ IdleExtract
    /\ IdleParse
    /\ IdleInfer
    /\ IdleScan

\* _get_or_create_provider up to its SELECT
SelectProvider(c) ==
    /\ co[c].pc = "provider"
    /\ LET s == co[c]
           result == select_provider(View(c), provider_name_of(s.entries[s.n].provider))
       IN  co' = [co EXCEPT ![c] = [reading(s) EXCEPT !.provider_id = result,
                                       !.pc = IF result # 0 THEN "model" ELSE "provider_insert"]]
    /\ UNCHANGED <<writer, work, xvars, pvars, svars, ivars, dvars>>

\* the INSERT of _get_or_create_provider, the write lock free or already held
InsertProvider(c) ==
    /\ co[c].pc = "provider_insert"
    /\ writer \in {0, c}
    /\ LET s == co[c]
           r == insert_provider(View(c), provider_name_of(s.entries[s.n].provider))
       IN  /\ work' = r.st
           /\ co' = [co EXCEPT ![c] = IF r.kind = "raise" THEN caught(writing(s), r.exc)
                                      ELSE [writing(s) EXCEPT !.provider_id = r.id, !.pc = "model"]]
    /\ writer' = c
    /\ UNCHANGED <<xvars, pvars, svars, ivars, dvars>>

\* _get_or_create_model up to its SELECT
SelectModel(c) ==
    /\ co[c].pc = "model"
    /\ LET s == co[c]
           model == s.entries[s.n].model
           result == select_model(View(c), s.provider_id, model_id_of(model))
       IN  co' = [co EXCEPT ![c] =
                    IF Truthy(model) /\ ~IsTxt(model) THEN caught(s, "AttributeError")
                    ELSE [reading(s) EXCEPT !.model_id = result,
                                            !.pc = IF result # 0 THEN "session" ELSE "model_insert"]]
    /\ UNCHANGED <<writer, work, xvars, pvars, svars, ivars, dvars>>

\* the INSERT of _get_or_create_model
InsertModel(c) ==
    /\ co[c].pc = "model_insert"
    /\ writer \in {0, c}
    /\ LET s == co[c]
           model == s.entries[s.n].model
           r == insert_model(View(c), s.provider_id, model_id_of(model), model_name_of(model))
       IN  /\ work' = r.st
           /\ co' = [co EXCEPT ![c] = IF r.kind = "raise" THEN caught(writing(s), r.exc)
                                      ELSE [writing(s) EXCEPT !.model_id = r.id, !.pc = "session"]]
    /\ writer' = c
    /\ UNCHANGED <<xvars, pvars, svars, ivars, dvars>>

\* _get_or_create_session up to its SELECT
SelectSession(c) ==
    /\ co[c].pc = "session"
    /\ LET s == co[c]
           entry == s.entries[s.n]
           result == select_session(View(c), session_key_of(entry.session_id, entry.timestamp, NoHash))
       IN  co' = [co EXCEPT ![c] = [reading(s) EXCEPT !.session_id = result,
                                       !.pc = IF result # 0 THEN "costs" ELSE "session_insert"]]
    /\ UNCHANGED <<writer, work, xvars, pvars, svars, ivars, dvars>>

\* the INSERT of _get_or_create_session
InsertSession(c) ==
    /\ co[c].pc = "session_insert"
    /\ writer \in {0, c}
    /\ LET s == co[c]
           entry == s.entries[s.n]
           r == insert_session(View(c), session_key_of(entry.session_id, entry.timestamp, NoHash))
       IN  /\ work' = r.st
           /\ co' = [co EXCEPT ![c] = IF r.kind = "raise" THEN caught(writing(s), r.exc)
                                      ELSE [writing(s) EXCEPT !.session_id = r.id, !.pc = "costs"]]
    /\ writer' = c
    /\ UNCHANGED <<xvars, pvars, svars, ivars, dvars>>

\* lines 253-264: the costs, with the SELECT of _get_model_pricing when it is made
ResolveCosts(c) ==
    /\ co[c].pc = "costs"
    /\ LET s == co[c]
           costs == resolve_costs(View(c), s.entries[s.n], s.model_id)
       IN  co' = [co EXCEPT ![c] =
                    IF costs.kind = "raise" THEN caught(s, costs.exc)
                    ELSE [(IF costs.lookup = "none" THEN s ELSE reading(s)) EXCEPT !.costs = costs, !.pc = "usage"]]
    /\ UNCHANGED <<writer, work, xvars, pvars, svars, ivars, dvars>>

\* lines 267-285: the INSERT into usage_entries and the count
InsertUsage(c) ==
    /\ co[c].pc = "usage"
    /\ writer \in {0, c}
    /\ LET s == co[c]
           id == Len(View(c).usage_entries) + 1
       IN  /\ work' = [View(c) EXCEPT !.usage_entries =
                          Append(@, usage_row(id, s.session_id, s.model_id, s.entries[s.n], s.costs))]
           /\ co' = [co EXCEPT ![c] =
                        next_entry(writing(s), Outcome(s.provider_id, s.model_id, s.session_id, id, "", s.costs.lookup), 1)]
    /\ writer' = c
    /\ UNCHANGED <<xvars, pvars, svars, ivars, dvars>>

\* an INSERT while the other coordinator holds the write lock gives up: the
\* error is caught as any other and the entry is left
InsertLocked(c) ==
    /\ co[c].pc \in InsertPcs
    /\ writer = Other(c)
    /\ co' = [co EXCEPT ![c] = caught(writing(co[c]), "OperationalError")]
    /\ UNCHANGED <<writer, work, xvars, pvars, svars, ivars, dvars>>

\* line 291: the commit. It ends the transaction, if one is open, and with it
\* the coordinator's locks; the writes of the lock's holder become visible
Commit(c) ==
    /\ co[c].pc = "commit"
    /\ writer = c => ~co[Other(c)].shared
    /\ db' = IF writer = c THEN work ELSE db
    /\ writer' = IF writer = c THEN 0 ELSE writer
    /\ co' = [co EXCEPT ![c] = [co[c] EXCEPT !.pc = "returned", !.in_tx = FALSE, !.shared = FALSE]]
    /\ UNCHANGED <<work, last, inits, facts, xvars, pvars, ivars, dvars>>

\* the commit gives up on the other coordinator's read lock: the error leaves
\* save_usage_entries and ends the command (cmd_parse does not catch it,
\* cmd_monitor prints it and returns), and the open transaction is rolled back
CommitLocked(c) ==
    /\ co[c].pc = "commit"
    /\ writer = c
    /\ co[Other(c)].shared
    /\ writer' = 0
    /\ work' = db
    /\ co' = [co EXCEPT ![c] = [co[c] EXCEPT !.pc = "raised", !.in_tx = FALSE, !.shared = FALSE]]
    /\ UNCHANGED <<xvars, pvars, svars, ivars, dvars>>

NextConc ==
    \E c \in Coordinators :
        \/ SelectProvider(c)
        \/ InsertProvider(c)
        \/ SelectModel(c)
        \/ InsertModel(c)
        \/ SelectSession(c)
        \/ InsertSession(c)
        \/ ResolveCosts(c)
        \/ InsertUsage(c)
        \/ InsertLocked(c)
        \/ Commit(c)
        \/ CommitLocked(c)

SpecConc == InitConc /\ [][NextConc]_vars

\* no two rows of a store with the same provider name, or the same model of a provider
NoDuplicateRows(st) ==
    /\ \A i, j \in DOMAIN st.providers : st.providers[i].name = st.providers[j].name => i = j
    /\ \A i, j \in DOMAIN st.models :
          (st.models[i].provider_id = st.models[j].provider_id /\ st.models[i].model_id = st.models[j].model_id) => i = j

\* the entries of a coordinator that came to their end and name a provider and a
\* model that an entry of the other coordinator names too
SharedEntries(c) ==
    {k \in DOMAIN co[c].outcomes :
        \E j \in DOMAIN co[Other(c)].entries :
            /\ co[Other(c)].entries[j].provider = co[c].entries[k].provider
            /\ co[Other(c)].entries[j].model = co[c].entries[k].model}

\* C7: two coordinators persist facts naming the same provider and model, unseen
\* before, against the same store: under every interleaving of their statements
\* no duplicate provider or model row is created, and each coordinator's
\* get-or-create of the provider and of the model resolves to a row identity,
\* the same one for both coordinators.
C7_ConcurrentGetOrCreate ==
    /\ NoDuplicateRows(db)
    /\ NoDuplicateRows(work)
    /\ \A c \in DOMAIN co : \A k \in SharedEntries(c) :
          /\ co[c].outcomes[k].provider_id # 0
          /\ co[c].outcomes[k].model_id # 0
          /\ \A j \in SharedEntries(Other(c)) :
                (co[Other(c)].entries[j].provider = co[c].entries[k].provider
                   /\ co[Other(c)].entries[j].model = co[c].entries[k].model)
                => /\ co[Other(c)].outcomes[j].provider_id = co[c].outcomes[k].provider_id
                   /\ co[Other(c)].outcomes[j].model_id = co[c].outcomes[k].model_id

(***************************************************************************)
(* Provider inference applied to every bounded model identifier            *)
(***************************************************************************)
\* pieces of model identifiers: rule patterns in either case, patterns cut
\* short, and text no rule knows
Parts == {
    <<"g","p","t","-">>, <<"G","P","T","-">>, <<"g","p","t">>, <<"o","1","-">>, <<"d","a","l","l","-","e">>,
    <<"c","l","a","u","d","e","-">>, <<"A","n","t","h","r","o","p","i","c">>,
    <<"g","e","m","i","n","i","-">>, <<"d","e","e","p","s","e","e","k","-">>,
    <<"c","o","m","m","a","n","d","-">>, <<"M","i","x","t","r","a","l">>, <<"m","i","s","t","r","a","l">>,
    <<"4","o","-","m","i","n","i">>, <<"3","-","5","-","h","a","i","k","u">>,
    <<"b","a","n","a","n","a">>, <<"-","l","l","m">> }

RECURSIVE Concat(_)
Concat(ps) == IF ps = <<>> THEN <<>> ELSE Head(ps) \o Concat(Tail(ps))

\* the identifiers made of up to MaxParts pieces, the empty one among them
ModelTexts == {Concat(ps) : ps \in SeqsUpTo(Parts, MaxParts)}

\* an identifier: absent, a string, or a value of another type
ModelIdentifiers == {Null, Num(5)} \cup {Txt(c) : c \in ModelTexts}

InitInfer ==
    /\ model_arg \in ModelIdentifiers
    /\ inferred = Pending
    /\ IdleExtract
    /\ IdleParse
    /\ IdleStore
    /\ IdleConc
    /\ IdleScan

Infer ==
    /\ inferred = Pending
    /\ inferred' = infer_provider_call(model_arg)
    /\ UNCHANGED <<model_arg, xvars, pvars, svars, cvars, dvars>>

NextInfer == Infer

SpecInfer == InitInfer /\ [][NextInfer]_vars

ProviderNames == {"openai", "anthropic", "google", "deepseek", "cohere", "mistral", "unknown"}

\* the provider of the first rule, from rule i on, with a pattern in the text
RECURSIVE FirstRuleFrom(_, _)
FirstRuleFrom(i, text) ==
    IF i > Len(ProviderRules) THEN "unknown"
    ELSE IF \E p \in ProviderRules[i].patterns : Contains(Lower(text), p) THEN ProviderRules[i].provider
    ELSE FirstRuleFrom(i + 1, text)

\* C19: provider inference returns, for every model identifier, the empty and
\* the absent one included, and without failing, one of the seven provider
\* names: that of the first rule in table order with a pattern occurring in
\* the identifier, letter case aside, and "unknown" when there is none.
C19_InferenceTotal ==
    inferred # Pending =>
        /\ inferred.kind = "ok"
        /\ inferred.v \in ProviderNames
        /\ inferred.v = (IF IsTxt(model_arg) THEN FirstRuleFrom(1, model_arg.c) ELSE "unknown")

(***************************************************************************)
(* SessionParser.parse_directory: a scan of a directory, file by file, and  *)
(* its interruption (KeyboardInterrupt, the way cmd_monitor is stopped).    *)
(* The scanning parser is the store's only user. store_mode is what         *)
(* connect() and the statements meet:                                      *)
(*   "ok"         the store opens and has its tables                       *)
(*   "no_path"    the parser was built without db_path (cmd_parse and      *)
(*                cmd_monitor pass args.db_path, None unless --db-path)    *)
(*   "unopenable" sqlite3.connect raises OperationalError                  *)
(*   "no_tables"  the file opens, the tables are not there                 *)
(***************************************************************************)
StoreModes == {"ok", "no_path", "unopenable", "no_tables"}

\* the lines of the scanned files: two usage lines that differ, a line that
\* does not decode, a line that is no usage record
ScanLineU == LineWithUsage
ScanLineV == JsonLine(Data(Str("message"), Message(Str("assistant"), UsageB, Absent, Absent, Str("acme"), Txt(M_claude)), Str("s2"), Str("t2")))

\* the directories: none, an empty one, one file of up to MaxLines + 1 lines,
\* two files, the second a short one
ScanDirs ==
    {[exists |-> FALSE, files |-> <<>>], [exists |-> TRUE, files |-> <<>>]} \cup
    {[exists |-> TRUE, files |-> <<f1>>] : f1 \in SeqsUpTo({ScanLineU, BadLine, LineNoUsage}, MaxLines + 1)} \cup
    {[exists |-> TRUE, files |-> <<f1, f2>>] :
        f1 \in SeqsUpTo({ScanLineU, BadLine, LineNoUsage}, MaxLines + 1),
        f2 \in SeqsUpTo({ScanLineV, LineNoUsage}, 1)}

\* every scanned line carries its timestamp and session id: the clock and the
\* string hash are not consulted
ScanClock == [i \in 1..(MaxLines + 2) |-> "now1"]

\* lines 397-398: the locals at the start of parse_directory
NewScan ==
    [pc |-> "read", k |-> 1, entries |-> <<>>, n |-> 0, saved_count |-> 0,
     files_processed |-> 0, total_entries |-> 0, counts |-> <<>>, printed |-> 0,
     reported |-> FALSE, exc |-> "", after |-> "nothing"]

\* how the scan before this one ended
ended(s) ==
    IF s.pc = "interrupted" THEN (IF s.mid_file THEN "interrupted mid-file" ELSE "interrupted between files")
    ELSE IF s.pc = "returned" THEN "returned"
    ELSE "nothing"

\* directory_not_found with a bug: the missing directory is an error
directory_not_found_raises(s) == [s EXCEPT !.pc = "raised", !.exc = "FileNotFoundError"]

\* lines 393-395: "Directory not found" is printed and (0, 0) returned
directory_not_found(s) == [s EXCEPT !.pc = "returned", !.reported = TRUE]

\* lines 401-405: the *.jsonl files found, in the order the scan takes them
session_files(d) == d.files

\* resume_offset with a bug: the scan resumes past the first line
resume_offset_past_first(f) == 1

\* line 412: parse_session_file(str(session_file)), last_processed_line left at 0
resume_offset(f) == 0

\* count_file with a bug: only a file that yields facts is counted
count_file_with_entries(files_processed, entries) ==
    IF entries # <<>> THEN files_processed + 1 ELSE files_processed

\* line 419: files_processed += 1, outside `if entries`
count_file(files_processed, entries) == files_processed + 1

\* lines 414-419 after the file at hand: the counts, then the next file or the return
file_done(s, called, saved, nfiles) ==
    [s EXCEPT !.files_processed = count_file(@, s.entries),
              !.total_entries = @ + saved,
              !.counts = IF called THEN Append(@, saved) ELSE @,
              !.entries = <<>>, !.n = 0, !.saved_count = 0,
              !.k = s.k + 1,
              !.pc = IF s.k + 1 > nfiles THEN "returned" ELSE "read"]

\* store_after_insert with a bug: every INSERT is committed at once
store_after_insert_autocommit(db_, work_) == work_

\* lines 243-289: no commit inside the loop, the committed store stays as it is
store_after_insert(db_, work_) == db_

InitScan ==
    /\ dir \in ScanDirs
    /\ store_mode \in StoreModes
    /\ scan = [pc |-> "idle"]
    /\ committed = <<>>
    /\ scan_no = 0
    /\ IdleExtract
    /\ IdleParse
    /\ IdleStore
    /\ IdleConc
    /\ IdleInfer

\* parse_directory is called: by cmd_parse once, by cmd_monitor again at every
\* poll, and by a new run after an interrupted one
StartScan ==
    /\ \/ scan.pc = "idle"
       \/ scan_no = 1 /\ scan.pc \in {"returned", "interrupted"}
    /\ scan_no' = scan_no + 1
    /\ LET s == [NewScan EXCEPT !.after = ended(scan)]
       IN  scan' = IF ~dir.exists THEN directory_not_found(s)
                   ELSE IF session_files(dir) = <<>> THEN [s EXCEPT !.pc = "returned"]
                   ELSE s
    /\ UNCHANGED <<dir, store_mode, committed, xvars, pvars, svars, cvars, ivars>>

\* lines 409-415: the file is parsed whole; with facts, save_usage_entries is
\* entered and connects (lines 230-238)
ReadFile ==
    /\ scan.pc = "read"
    /\ LET f == session_files(dir)[scan.k]
           r == parse_session_file([exists |-> TRUE, lines |-> f], TRUE, resume_offset(f), ScanClock)
           s == [scan EXCEPT !.printed = @ + Len(r.printed), !.entries = r.entries]
           nfiles == Len(session_files(dir))
       IN  scan' = IF r.entries = <<>> THEN file_done(s, FALSE, 0, nfiles)
                   ELSE IF store_mode = "no_path" THEN file_done(s, TRUE, 0, nfiles)
                   ELSE IF store_mode = "unopenable" THEN [s EXCEPT !.pc = "raised", !.exc = "OperationalError"]
                   ELSE [s EXCEPT !.pc = "save", !.n = 1]
    /\ UNCHANGED <<dir, store_mode, committed, scan_no, xvars, pvars, svars, cvars, ivars>>

\* lines 242-289 for one entry of the batch; without the tables its first
\* statement raises and the error is caught
SaveEntry ==
    /\ scan.pc = "save"
    /\ LET r == IF store_mode = "ok" THEN save_entry(work, scan.entries[scan.n], NoHash)
                ELSE [st |-> work, saved |-> 0]
       IN  /\ work' = r.st
           /\ db' = store_after_insert(db, r.st)
           /\ scan' = [scan EXCEPT !.saved_count = @ + r.saved,
                                   !.n = @ + 1,
                                   !.pc = IF scan.n + 1 > Len(scan.entries) THEN "commit" ELSE "save"]
    /\ UNCHANGED <<dir, store_mode, committed, scan_no, co, writer, last, inits, facts, xvars, pvars, ivars>>

\* lines 291-292 and 416-419: the commit, the count returned and added up
CommitBatch ==
    /\ scan.pc = "commit"
    /\ db' = work
    /\ committed' = Append(committed, [scan_no |-> scan_no, k |-> scan.k])
    /\ scan' = file_done(scan, TRUE, scan.saved_count, Len(session_files(dir)))
    /\ UNCHANGED <<dir, store_mode, scan_no, co, writer, work, last, inits, facts, xvars, pvars, ivars>>

\* KeyboardInterrupt during the first scan, before a file is read (between
\* files) or while its batch is saved (mid-file): the run ends and what its
\* connection had not committed is rolled back
Interrupt ==
    /\ scan_no = 1
    /\ scan.pc \in {"read", "save", "commit"}
    /\ scan' = [pc |-> "interrupted", k |-> scan.k, mid_file |-> scan.pc # "read"]
    /\ work' = db
    /\ UNCHANGED <<dir, store_mode, committed, scan_no, co, writer, xvars, pvars, svars, ivars>>

NextScan == StartScan \/ ReadFile \/ SaveEntry \/ CommitBatch \/ Interrupt

SpecScan == InitScan /\ [][NextScan]_vars


(***************************************************************************)
(* Claims about the directory scan                                         *)
(***************************************************************************)
RECURSIVE SumSeq(_)
SumSeq(q) == IF q = <<>> THEN 0 ELSE Head(q) + SumSeq(Tail(q))

ScanUsageLines == {ScanLineU, ScanLineV}

\* the number of lines of a file that are the line x
Occurrences(f, x) == Cardinality({i \in DOMAIN f : f[i] = x})

\* the number of usage lines of a file, and of the files before file k
UsageCount(f) == Cardinality({i \in DOMAIN f : f[i] \in ScanUsageLines})

RECURSIVE UsageCountUpTo(_)
UsageCountUpTo(k) == IF k = 0 THEN 0 ELSE UsageCount(dir.files[k]) + UsageCountUpTo(k - 1)

\* C11: parse_directory returns, as its first count, the number of *.jsonl
\* files found, files without facts included, and as its second the sum of the
\* counts save_usage_entries returned, one call for every file with facts; on a
\* usable store that is the number of usage lines of the files.
C11_DirectoryCounts ==
    (scan.pc = "returned" /\ dir.exists) =>
        /\ scan.files_processed = Len(dir.files)
        /\ scan.total_entries = SumSeq(scan.counts)
        /\ Len(scan.counts) = Cardinality({k \in DOMAIN dir.files : UsageCount(dir.files[k]) > 0})
        /\ store_mode = "ok" => scan.total_entries = UsageCountUpTo(Len(dir.files))

\* a file of three usage lines and a malformed one, and a file without usage
\* lines: (2, 3) and one decode diagnostic
C11_Witness ==
    /\ scan.pc = "returned"
    /\ store_mode = "ok"
    /\ dir.files = << <<ScanLineU, ScanLineU, BadLine, ScanLineU>>, <<LineNoUsage>> >>
    /\ scan.files_processed = 2
    /\ scan.total_entries = 3
    /\ scan.printed = 1
    /\ Len(db.usage_entries) = 3

\* C12: on a directory that does not exist parse_directory reports it, returns
\* (0, 0), raises nothing and leaves the store as it was, whatever the store.
C12_MissingDirectory ==
    (~dir.exists /\ scan.pc # "idle") =>
        /\ scan.pc = "returned"
        /\ scan.reported
        /\ scan.exc = ""
        /\ scan.files_processed = 0
        /\ scan.total_entries = 0
        /\ db = EmptyStore
        /\ work = EmptyStore

\* the second scan of a missing directory has returned as well
C12_Witness ==
    /\ ~dir.exists
    /\ scan_no = 2
    /\ scan.pc = "returned"
    /\ scan.reported
    /\ store_mode = "unopenable"

\* the metadata_json of the rows of a store, in order
RawRows(st) == [i \in DOMAIN st.usage_entries |-> st.usage_entries[i].metadata_json]

\* the raw lines of the facts of a file, in order
RECURSIVE RawFacts(_)
RawFacts(f) ==
    IF f = <<>> THEN <<>>
    ELSE (IF Head(f) \in ScanUsageLines THEN <<json_dumps(Head(f).v)>> ELSE <<>>) \o RawFacts(Tail(f))

\* what the committed batches, each taken whole, amount to
RECURSIVE WholeBatches(_)
WholeBatches(cs) ==
    IF cs = <<>> THEN <<>> ELSE RawFacts(dir.files[Head(cs).k]) \o WholeBatches(Tail(cs))

\* the files before file k that have facts were committed by the scan at hand
EarlierFilesCommitted(k) ==
    \A j \in 1..(k - 1) :
        UsageCount(dir.files[j]) > 0 => \E i \in DOMAIN committed : committed[i] = [scan_no |-> scan_no, k |-> j]

\* C13: the facts of a file are persisted and committed as one batch before
\* the next file is read: the committed store holds whole batches only, at
\* every moment, every file before the one being read is committed, and an
\* interruption between files leaves it so, nothing being left half done.
C13_WholeBatches ==
    store_mode = "ok" =>
        /\ RawRows(db) = WholeBatches(committed)
        /\ scan.pc = "read" => EarlierFilesCommitted(scan.k)
        /\ (scan.pc = "interrupted" /\ ~scan.mid_file) =>
              /\ EarlierFilesCommitted(scan.k)
              /\ work = db

\* interrupted between a first file of two usage lines or more and the second
C13_Witness ==
    /\ store_mode = "ok"
    /\ scan.pc = "interrupted"
    /\ ~scan.mid_file
    /\ scan.k = 2
    /\ Len(db.usage_entries) >= 2
    /\ Len(db.usage_entries) = UsageCount(dir.files[1])

\* the number of rows of the committed store made from the line x
RowsOf(x) == Cardinality({i \in DOMAIN db.usage_entries : db.usage_entries[i].metadata_json = json_dumps(x.v)})

\* C14: a scan starts every file at offset 0, whatever happened before, so
\* after an interrupted scan a complete one persists every usage line of
\* every file: each line has a row at least, and may have more than one.
C14_AtLeastOnce ==
    (store_mode = "ok" /\ dir.exists /\ scan.pc = "returned") =>
        \A x \in ScanUsageLines :
            RowsOf(x) >= SumSeq([k \in DOMAIN dir.files |-> Occurrences(dir.files[k], x)])

\* the first scan committed the first file and was interrupted in the batch of
\* the second; after the next scan the first file's line has two rows, the
\* second file's line one
C14_Witness ==
    /\ store_mode = "ok"
    /\ scan_no = 2
    /\ scan.pc = "returned"
    /\ scan.after = "interrupted mid-file"
    /\ dir.files = << <<ScanLineU>>, <<ScanLineV>> >>
    /\ RowsOf(ScanLineU) = 2
    /\ RowsOf(ScanLineV) = 1

\* C15: a store that cannot be opened or used is fatal to the scan: the error
\* reaches the caller of parse_directory, and a scan that had facts to persist
\* does not return counts as a normal run does.
C15_StoreFailureIsFatal ==
    (store_mode # "ok" /\ dir.exists /\ scan.pc = "returned") =>
        \A k \in DOMAIN dir.files : UsageCount(dir.files[k]) = 0

====
